---- MODULE Spec2Model ----
(***************************************************************************)
(* The canvas animation engines of the portfolio site: the frame driver    *)
(* (start / stop / animate / visibility / destroy) of every MouseTrail and *)
(* MatrixRain variant in the repository, and the particle store of the     *)
(* MouseTrail variants (createParticle / updateParticles).                 *)
(*                                                                         *)
(* One engine instance is modelled at a time; `variant` says which class   *)
(* it is an instance of.  Time is kept as elapsed milliseconds since the   *)
(* time stamps the code stores (lastFrameTime, lastMove): the code only    *)
(* ever subtracts a stored stamp from the current time.                    *)
(***************************************************************************)
EXTENDS Integers, Sequences, FiniteSets, TLC

(***************************************************************************)
(* Bounds of the model.                                                    *)
(***************************************************************************)
MaxPending == 2      \* frame callbacks of one instance pending at once
MaxCeiling == 2      \* largest configured config.maxParticles
IdleSteps == 5       \* short steps that may pass without a frame baseline reset
MaxScroll == 2       \* scroll positions 0..MaxScroll of a scroll event
WaitSteps == 1       \* short steps that may pass while a resize timer waits
LifetimeCfg == 2     \* config.particleLifetime, in frames
MaxSpeed == 2        \* pointer speeds are 0 and k*k px per event, k in 1 .. MaxSpeed
MaxTrailExtra == 1   \* a trail is of the shortest length or this much longer
MaxStep == 2         \* a drop moves 1 .. MaxStep pixels in an update
MaxRise == 1         \* pixels above the canvas at which a new drop may start
MaxDropsCfg == 3     \* minDrops and maxDrops options are at most this
Low == 2             \* the window of the drops, in pixels each way
Wide == 100          \* the window of the frame driver, in pixels each way
Glyph == 10          \* the width of a 'W' in the font of the canvas, in pixels

(***************************************************************************)
(* Program constants.                                                      *)
(***************************************************************************)
JumpLimit == 1000        \* mouse-trail-new.js animate: deltaTime < 1000
DrawGate == 16           \* mouse-trail-new.js drawParticles: 60fps cap
MoveThrottleNew == 16    \* mouse-trail-new.js handleMouseMove
MoveThrottleOld == 8     \* mouse-trail.js, part_001 handleMouseMove
RecentMove == 100        \* mouse-trail-new.js createParticle
DeltaCap == 100          \* mouse-trail.js, part_001 animate: Math.min(deltaTime, 100)
FpsLimit == 60           \* MatrixRain.defaultConfig.fpsLimit
ExtFrameInterval == 40   \* extended MatrixRain: 1000 / 25
ExtDebounce == 100       \* extended MatrixRain: the delay of its resize timer
SpawnRate == 3           \* MouseTrail config.spawnRate default
NoHandle == 0            \* animationId = null
Unset == -1              \* a time stamp that is 0 / undefined (never written)
NaN == -2                \* the number NaN
Scale == 100             \* option values are kept in hundredths (fadeFactor: 0.08)
MaxRate == 144           \* _validateConfig: Math.min(value, 144)
MaxChars == 40           \* extended MatrixRain resetDropChars: Math.min(40, drop.length)
AddedAt == -20           \* extended MatrixRain addDrop: y of a drop that is not initial
ResizeSlack == 10        \* validating MatrixRain setupCanvas: Math.abs(...) > 10

\* Time advances in steps of the shortest interval the code tells apart.
TickMs == MoveThrottleOld

\* The engine classes of the repository.
MT_old == "mouse-trail.js:MouseTrail"
MT_new == "mouse-trail-new.js:MouseTrail"
MT_p1 == "part_001:MouseTrail"
MR_val == "matrix-simple-fixed.js:MatrixRain(validating)"
MR_simple == "matrix-simple-fixed.js:MatrixRain(simple)"
MR_ext == "matrix-simple-fixed.js:MatrixRain(extended)"
MR_p1 == "part_001:MatrixRain"

MouseTrails == {MT_old, MT_new, MT_p1}
MatrixRains == {MR_val, MR_simple, MR_ext}
Variants == MouseTrails \cup MatrixRains
RainVariants == MatrixRains \cup {MR_p1}
PG_p0 == "part_000:page"
PM_p2 == "part_002:ProjectModal"
PM_pub == "public/project-modal.js:ProjectModal"
ProjectModals == {PM_p2, PM_pub}

Handles == 1..(MaxPending + 2)

VARIABLES
    variant,        \* the class of the instance
    maxParticles,   \* config.maxParticles
    hidden,         \* document.hidden
    pending,        \* handles of the instance's frame callbacks the browser holds
    animationId,    \* this.animationId (NoHandle = null)
    isRunning,      \* this.isRunning (validating MatrixRain)
    sinceFrame,     \* now - this.lastFrameTime (this.lastTime), or Unset
    sinceMove,      \* now - this.lastMove, or Unset
    listeners,      \* <<event, function>> pairs the instance has registered
    canvasAttached, \* the canvas has a parentNode
    particles,      \* this.particles: the live particles, oldest first
    particlePool,   \* this.particlePool
    allocated,      \* particle objects created so far with {}
    rain,           \* MatrixRain: the canvas lookup, the resize timer, the drops
    throttle,       \* the closure of throttle(func, limit), and its timer
    page,           \* the other closures and objects of the page scripts
    hist            \* observations of the run (not program state)

vars == <<variant, maxParticles, hidden, pending, animationId, isRunning,
          sinceFrame, sinceMove, listeners, canvasAttached, particles,
          particlePool, allocated, rain, throttle, page, hist>>

Min(a, b) == IF a < b THEN a ELSE b

(***************************************************************************)
(* The engine and the part of the browser it touches, as one record, so    *)
(* that a method can call another.                                         *)
(***************************************************************************)
Cur ==
    [animationId |-> animationId, pending |-> pending, isRunning |-> isRunning,
     sinceFrame |-> sinceFrame, sinceMove |-> sinceMove, listeners |-> listeners,
     canvasAttached |-> canvasAttached, particles |-> particles,
     particlePool |-> particlePool, allocated |-> allocated, rain |-> rain,
     throttle |-> throttle, page |-> page, hist |-> hist]

Commit(r) ==
    /\ Cardinality(r.pending) <= MaxPending
    /\ animationId' = r.animationId
    /\ pending' = r.pending
    /\ isRunning' = r.isRunning
    /\ sinceFrame' = r.sinceFrame
    /\ sinceMove' = r.sinceMove
    /\ listeners' = r.listeners
    /\ canvasAttached' = r.canvasAttached
    /\ particles' = r.particles
    /\ particlePool' = r.particlePool
    /\ allocated' = r.allocated
    /\ rain' = r.rain
    /\ throttle' = r.throttle
    /\ page' = r.page
    /\ hist' = r.hist
    /\ UNCHANGED <<variant, maxParticles>>

\* throttle(func, limit) before the function it returns is called: let
\* inThrottle, which is undefined
NoThrottle == [limit |-> 0, inThrottle |-> FALSE, timer |-> FALSE, wait |-> 0]

\* debounce(func, wait) before the function it returns is called: let
\* timeout.  timeout: a timer is set and has neither fired nor been
\* cleared; left: the time until it is due; args: the arguments it holds
NoDebounce == [wait |-> 0, timeout |-> FALSE, left |-> 0, args |-> Unset]

\* ProjectModal.  isOpen: this.isOpen; active: the modal element has class
\* 'active'; ariaHidden: its aria-hidden is 'true'; overflow: the overflow
\* of the body style; attached: the modal element is in the document;
\* content: the project shown; focus: where document.activeElement is
NoModal ==
    [isOpen |-> FALSE, active |-> FALSE, ariaHidden |-> TRUE, overflow |-> "",
     attached |-> FALSE, closeOnEsc |-> TRUE, closeOnOverlayClick |-> TRUE,
     content |-> Unset, focus |-> "elsewhere"]

\* the hero subtitle and the typeWriter closures of initTypewriter.
\* present: the page has a .hero-subtitle; content: its textContent at
\* load of the script; subtitle: its textContent now; loaded: the load
\* event has fired; closures: one per call of initTypewriter, with its
\* text, its i, whether a timer for it is set and the time until it is due
NoTyping ==
    [present |-> FALSE, content |-> <<>>, subtitle |-> <<>>, loaded |-> FALSE,
     closures |-> <<>>]

NoPage == [debounce |-> NoDebounce, modal |-> NoModal, typing |-> NoTyping]

(***************************************************************************)
(* Observations.  phase: "constructed", then "stopped" after stop() and    *)
(* "restarted" after a start() that follows a stop().  ranUpdate, ranDraw  *)
(* and frameSeen are about the phase, frame and move about the last event. *)
(* halted: the host's last call was stop() or destroy().  vis: "hidden"    *)
(* after the page was hidden, "shown" from its return until the next       *)
(* frame, "none" after any call of the host.  carry: by how much the last   *)
(* update of the validating MatrixRain set lastFrameTime back, while that  *)
(* baseline is younger than the jump limit.                                *)
(***************************************************************************)
NoPick == [right |-> FALSE, y |-> 0, length |-> 0]

\* what Math.random() and the clock give in one update of the drops: the
\* pixels a drop moves, whether a character is added, whether a drop that
\* has left the canvas is kept, whether a drop is added, and the y and
\* length of a drop that is made or reset
NoRnd == [step |-> 0, grow |-> FALSE, keep |-> TRUE, spawn |-> FALSE, pick |-> NoPick]

\* before, resets, popped: the drops there were when the update began,
\* those found below the canvas, those that lost their last character;
\* gap: the time since the callback before this one that ran the update of
\* the validating MatrixRain, or since start(); painted: the particles in
\* the order in which draw painted them; live: this.particles when draw began
NoFrame == [fired |-> FALSE, due |-> FALSE, updated |-> FALSE, drew |-> FALSE,
            threw |-> "none", caught |-> FALSE, rnd |-> NoRnd, before |-> <<>>,
            resets |-> {}, popped |-> {}, gap |-> Unset, painted |-> <<>>,
            live |-> <<>>]

\* since: now - lastMove when the handler was entered, counted up to the
\* longer of the two throttles; first: no event had
\* been processed before this one; added: the particles pushed by the event
NoMove == [result |-> "none", wanted |-> 0, before |-> <<>>, after |-> <<>>,
           since |-> Unset, first |-> FALSE, added |-> 0]

\* While a resize timer is pending.  since: the time since the debounced
\* resize listener last ran, counted until the timer is due
NoResize == [since |-> Unset]

\* fired: the debounce timer ran in this step, since ms after the last
\* resize; burst: the resize listener ran in this step, while a timer set
\* less than the delay ago was waiting
NoRelaid == [fired |-> FALSE, since |-> Unset, burst |-> FALSE]

\* made: the function that throttle returned was called in this step; ran:
\* it ran func; since: the time since func ran last, counted until it is
\* more than the limit; waiting: the timer of that run had not fired; args:
\* the arguments of the call.  Of debounce: made: the function it returned
\* was called in this step; ran: its timer ran func in this step; since: the
\* time since the call before, counted until it is more than the wait;
\* waiting: the timer of the call before had not fired; args: the arguments
\* of the call, or those func ran with
NoCall ==
    [made |-> FALSE, ran |-> FALSE, since |-> Unset, waiting |-> FALSE,
     args |-> Unset]

\* what an event or a call did to a ProjectModal: the methods it invoked,
\* the events these dispatched on the document, whether it threw, whether
\* a listener called preventDefault
NoModalStep ==
    [op |-> "none", invoked |-> {}, dispatched |-> <<>>, threw |-> FALSE,
     prevented |-> FALSE]

HistInit ==
    [phase |-> "constructed", ranUpdate |-> FALSE, ranDraw |-> FALSE,
     frameSeen |-> FALSE, destroyed |-> FALSE, frame |-> NoFrame,
     move |-> NoMove, retired |-> {}, vis |-> "none", halted |-> FALSE,
     moved |-> FALSE, steps |-> 0, resize |-> NoResize, relaid |-> NoRelaid,
     carry |-> 0, call |-> NoCall, sinceRan |-> Unset,
     sinceCall |-> Unset, applied |-> Unset, modal |-> NoModalStep]

NewPhase(h, p) ==
    [h EXCEPT !.phase = p, !.ranUpdate = FALSE, !.ranDraw = FALSE,
              !.frameSeen = FALSE]

\* the update step, the draw step is entered
RanUpdate(s) == [s EXCEPT !.hist.ranUpdate = TRUE, !.hist.frame.updated = TRUE]

RanDraw(s) == [s EXCEPT !.hist.ranDraw = TRUE, !.hist.frame.drew = TRUE]

\* What is forgotten when the next event is handled.
Fresh(s) == [s EXCEPT !.hist.frame = NoFrame, !.hist.move = NoMove,
                      !.hist.retired = {}, !.hist.relaid = NoRelaid,
                      !.hist.call = NoCall, !.hist.modal = NoModalStep]

(***************************************************************************)
(* requestAnimationFrame / cancelAnimationFrame.  The browser never hands  *)
(* out a handle twice; here a handle is taken again once nothing refers    *)
(* to it.                                                                  *)
(***************************************************************************)
FreshHandle(s) ==
    CHOOSE h \in Handles :
        /\ h \notin s.pending /\ h # s.animationId
        /\ \A g \in Handles : g < h => (g \in s.pending \/ g = s.animationId)

\* this.animationId = requestAnimationFrame(this.animate)
RequestFrame(s) ==
    IF Cardinality(s.pending) > MaxPending THEN s
    ELSE LET h == FreshHandle(s)
         IN [s EXCEPT !.pending = @ \cup {h}, !.animationId = h]

CancelAnimationFrame(s, h) == [s EXCEPT !.pending = @ \ {h}]

(***************************************************************************)
(* Particles.  A particle is a JavaScript object: `id` is its identity.    *)
(* life is in frames (mouse-trail-new.js, rounded up: only life <= 0 after *)
(* whole decrements is tested) or in hundredths of a frame (mouse-trail.js,*)
(* where life -= deltaFactor and deltaFactor = deltaTime * 0.06).          *)
(* opacity is in hundredths, or NaN.                                       *)
(***************************************************************************)
Ids(seq) == {seq[i].id : i \in 1..Len(seq)}

IdSeq(seq) == [i \in 1..Len(seq) |-> seq[i].id]

Front(seq) == SubSeq(seq, 1, Len(seq) - 1)

Last(seq) == seq[Len(seq)]

ObjectIds == 1..(2 * MaxCeiling + 4)

\* the identity of a new object: one no live reference has
NewObject(s) ==
    CHOOSE n \in ObjectIds :
        LET used == Ids(s.particles) \cup Ids(s.particlePool)
                    \cup {s.hist.move.before[i] : i \in 1..Len(s.hist.move.before)}
        IN n \notin used /\ \A m \in ObjectIds : m < n => m \in used

\* Math.ceil(a / b) for a >= 0, b > 0
CeilDiv(a, b) == (a + b - 1) \div b

\* The lifetimes createParticle can assign: particleLifetime * (0.8 + r * 0.4)
\* in mouse-trail-new.js, particleLifetime * (0.7 + r * 0.6) in mouse-trail.js.
Lifetimes(v, particleLifetime) ==
    IF v = MT_old
    THEN {70 * particleLifetime, 130 * particleLifetime - 1}
    ELSE CeilDiv(8 * particleLifetime, 10)..CeilDiv(12 * particleLifetime, 10)

LifeChoices(v) == Lifetimes(v, LifetimeCfg)

\* a pointer speed at which Math.ceil(speed * 0.1 * spawnRate) is over the cap
FastSpeed == 10 * (SpawnRate + 1)

SpeedChoices == {0, FastSpeed} \cup {k * k : k \in 1..MaxSpeed}

\* a <= b in JavaScript: false when a is NaN
Leq(a, b) == a # NaN /\ a <= b

\* a > b in JavaScript: false when either is NaN
Above(a, b) == a # NaN /\ b # NaN /\ a > b

\* a - b in JavaScript, b possibly undefined (NaN after conversion)
Minus(a, b) == IF a = NaN \/ b = NaN THEN NaN ELSE a - b

NoteCreate(s, before) ==
    [s EXCEPT !.hist.move.before = IdSeq(before),
              !.hist.move.after = IdSeq(s.particles)]

\* createParticle dropping the newest particle, not the oldest, at the ceiling
CreateParticleOldDropNewest(s, max, life, second) ==
    LET s0 == [s EXCEPT !.hist.move.before = IdSeq(s.particles)]
        kept == IF Len(s0.particles) >= max THEN Front(s0.particles)
                ELSE s0.particles
    IN NoteCreate([s0 EXCEPT !.particles =
                       Append(kept, [id |-> NewObject(s0), life |-> life])],
                  s.particles)

\* createParticle without the removal at the ceiling
CreateParticleOldNoEvict(s, max, life, second) ==
    LET s0 == [s EXCEPT !.hist.move.before = IdSeq(s.particles)]
    IN NoteCreate([s0 EXCEPT !.particles =
                       Append(@, [id |-> NewObject(s0), life |-> life])],
                  s.particles)

\* mouse-trail.js createParticle.  life, second: the outcomes of the
\* Math.random() calls of lines 169 and 181.
CreateParticleOld(s, max, life, second) ==
    LET s0 == [s EXCEPT !.hist.move.before = IdSeq(s.particles)]
        kept == IF Len(s0.particles) >= max /\ s0.particles # <<>>
                THEN Tail(s0.particles) ELSE s0.particles
        s1 == [s0 EXCEPT !.particles =
                             Append(kept, [id |-> NewObject(s0), life |-> life]),
                         !.hist.move.added = @ + 1]
        s2 == IF second /\ Len(s1.particles) < max - 1
              THEN [s1 EXCEPT !.particles =
                                  Append(@, [id |-> NewObject(s1), life |-> life]),
                              !.hist.move.added = @ + 1]
              ELSE s1
    IN NoteCreate(s2, s.particles)

\* Object.assign(particle, {...}) of mouse-trail-new.js lines 170-188
Assign(id, life) == [id |-> id, life |-> life, opacity |-> 100]

\* createParticle that takes the last object of the pool and leaves it there
CreateParticleNewKeepPooled(s, max, life) ==
    IF s.sinceMove > RecentMove THEN s
    ELSE LET s0 == [s EXCEPT !.hist.move.before = IdSeq(s.particles)]
             pool == s0.particlePool
         IN IF Len(pool) > 0
            THEN NoteCreate([s0 EXCEPT !.particles =
                                 Append(@, Assign(Last(pool).id, life))],
                            s.particles)
            ELSE IF Len(s0.particles) < max
            THEN NoteCreate([s0 EXCEPT !.particles = Append(@, Assign(NewObject(s0), life)),
                                       !.allocated = @ + 1],
                            s.particles)
            ELSE IF s0.particles # <<>>
            THEN NoteCreate([s0 EXCEPT !.particles =
                                 Append(Tail(@), Assign(Head(s0.particles).id, life))],
                            s.particles)
            ELSE s0

\* mouse-trail-new.js createParticle
CreateParticleNew(s, max, life) ==
    IF s.sinceMove > RecentMove THEN s
    ELSE LET s0 == [s EXCEPT !.hist.move.before = IdSeq(s.particles)]
             pool == s0.particlePool
         IN IF Len(pool) > 0
            THEN \* particle = this.particlePool.pop()
                 NoteCreate([s0 EXCEPT !.particlePool = Front(pool),
                                       !.particles = Append(@, Assign(Last(pool).id, life))],
                            s.particles)
            ELSE IF Len(s0.particles) < max
            THEN \* particle = {}
                 NoteCreate([s0 EXCEPT !.particles = Append(@, Assign(NewObject(s0), life)),
                                       !.allocated = @ + 1],
                            s.particles)
            ELSE IF s0.particles # <<>>
            THEN \* oldParticle = shift(); pool.push(oldParticle); particle = pool.pop()
                 NoteCreate([s0 EXCEPT !.particles =
                                 Append(Tail(@), Assign(Head(s0.particles).id, life))],
                            s.particles)
            ELSE s0   \* shift() of an empty list: particle is undefined, return

\* part_001 createParticle: this.particlePool is never assigned, so
\* this.particlePool.length throws a TypeError before anything is changed.
CreateParticleP1(s) == [s EXCEPT !.hist.move.result = "threw"]

(***************************************************************************)
(* updateParticles.  The loop runs from the last particle to the first.    *)
(***************************************************************************)
RECURSIVE UpdateNewFrom(_, _, _)
\* mouse-trail-new.js updateParticles, particles i, i-1, ..., 1
UpdateNewFrom(s, max, i) ==
    IF i = 0 THEN s
    ELSE LET p == [s.particles[i] EXCEPT !.opacity = Minus(@, NaN)]  \* p.fadeSpeed is undefined
             without == SubSeq(s.particles, 1, i - 1)
                        \o SubSeq(s.particles, i + 1, Len(s.particles))
         IN IF Leq(p.opacity, 1) \/ p.life <= 0
            THEN UpdateNewFrom(
                     [s EXCEPT !.particlePool =
                                   IF Len(@) < max * 2 THEN Append(@, p) ELSE @,
                               !.particles = without,
                               !.hist.retired = @ \cup {p.id}],
                     max, i - 1)
            ELSE UpdateNewFrom(
                     [s EXCEPT !.particles[i] = [p EXCEPT !.life = @ - 1]],
                     max, i - 1)

RECURSIVE UpdateNewFromDiscard(_, _, _)
\* updateParticles dropping a retired particle instead of pooling it
UpdateNewFromDiscard(s, max, i) ==
    IF i = 0 THEN s
    ELSE LET p == [s.particles[i] EXCEPT !.opacity = Minus(@, NaN)]
             without == SubSeq(s.particles, 1, i - 1)
                        \o SubSeq(s.particles, i + 1, Len(s.particles))
         IN IF Leq(p.opacity, 1) \/ p.life <= 0
            THEN UpdateNewFromDiscard(
                     [s EXCEPT !.particles = without,
                               !.hist.retired = @ \cup {p.id}],
                     max, i - 1)
            ELSE UpdateNewFromDiscard(
                     [s EXCEPT !.particles[i] = [p EXCEPT !.life = @ - 1]],
                     max, i - 1)

UpdateParticlesNewDiscard(s, max) == UpdateNewFromDiscard(s, max, Len(s.particles))

\* mouse-trail-new.js updateParticles
UpdateParticlesNew(s, max) == UpdateNewFrom(s, max, Len(s.particles))

RECURSIVE UpdateOldFrom(_, _, _, _)
\* mouse-trail.js updateParticles; df = deltaFactor in hundredths, off = the
\* particles that have left the canvas by more than the margin
UpdateOldFrom(s, df, off, i) ==
    IF i = 0 THEN s
    ELSE LET p == [s.particles[i] EXCEPT !.life = @ - df]
             without == SubSeq(s.particles, 1, i - 1)
                        \o SubSeq(s.particles, i + 1, Len(s.particles))
         IN IF p.life <= 0 \/ p.id \in off
            THEN UpdateOldFrom([s EXCEPT !.particles = without,
                                         !.hist.retired = @ \cup {p.id}],
                               df, off, i - 1)
            ELSE UpdateOldFrom([s EXCEPT !.particles[i] = p], df, off, i - 1)

\* deltaFactor = Math.min(deltaTime / (1000 / 60), 2), in hundredths
UpdateParticlesOld(s, deltaTime, off) ==
    UpdateOldFrom(s, Min(6 * deltaTime, 200), off, Len(s.particles))

\* part_001 updateParticles: its createParticle never adds a particle, so the
\* loop body is never entered.
UpdateParticlesP1(s) == s

(***************************************************************************)
(* MatrixRain: the options.  A value of an options object is a record of   *)
(* its type and its content: a number in hundredths, the length of a       *)
(* string, the number of entries of an array of colours (BadArray if one   *)
(* of them is not #RRGGBB).  An options object has a value, or Absent, for *)
(* every name.                                                             *)
(***************************************************************************)
Absent == [t |-> "absent", v |-> 0]
Num(x) == [t |-> "number", v |-> x]
Whole(k) == Num(k * Scale)
NotANumber == [t |-> "NaN", v |-> 0]     \* typeof NaN is "number"
Str(n) == [t |-> "string", v |-> n]
Arr(n) == [t |-> "array", v |-> n]
BadArray == Arr(0 - 1)

Max(a, b) == IF a > b THEN a ELSE b

\* Math.floor of a number in hundredths, in hundredths
Floor(x) == (x \div Scale) * Scale

\* the whole number stored in a configuration
Count(val) == val.v \div Scale

FloorKeys == {"fontSize", "speed", "minDrops", "maxDrops"}
UnitKeys == {"density", "fadeFactor"}
ClampKeys == {"fpsLimit", "resizeDebounce"}
Recognized == FloorKeys \cup UnitKeys \cup ClampKeys \cup {"charset", "colors"}

\* columnWidth is an option of the extended MatrixRain only
OptionKeys == Recognized \cup {"columnWidth"}

NoOptions == [k \in OptionKeys |-> Absent]

\* static defaultConfig, or the literal the constructor spreads the options
\* over
DefaultConfig(v) ==
    LET common == [NoOptions EXCEPT !.charset = Str(2), !.fontSize = Whole(18),
                                    !.speed = Whole(30), !.density = Num(90),
                                    !.minDrops = Whole(30), !.maxDrops = Whole(80),
                                    !.colors = Arr(4), !.fadeFactor = Num(8)]
    IN CASE v = MR_val -> [common EXCEPT !.fpsLimit = Whole(60),
                                         !.resizeDebounce = Whole(250)]
         [] v = MR_simple -> common
         [] v = MR_p1 -> [common EXCEPT !.density = Num(80), !.minDrops = Whole(20)]
         [] v = MR_ext -> [common EXCEPT !.speed = Num(120), !.density = Num(75),
                                         !.maxDrops = Whole(120),
                                         !.columnWidth = Whole(20),
                                         !.colors = Absent, !.fadeFactor = Absent]
         [] OTHER -> NoOptions

\* a validation that takes every number for the options that are numbers
ValidateOptionAnyNumber(key, value) ==
    CASE key \in FloorKeys -> IF value.t = "number" THEN Num(Floor(value.v)) ELSE Absent
      [] key \in UnitKeys \cup ClampKeys -> IF value.t = "number" THEN value ELSE Absent
      [] key = "charset" ->
             IF value.t = "string" /\ value.v > 0 THEN value ELSE Absent
      [] key = "colors" ->
             IF value.t = "array" /\ value.v >= 0 THEN value ELSE Absent
      [] OTHER -> Absent

\* one case of the switch of _validateConfig: validated[key], or Absent
ValidateOption(key, value) ==
    CASE key \in FloorKeys ->
             IF value.t = "number" /\ value.v > 0 THEN Num(Floor(value.v)) ELSE Absent
      [] key \in UnitKeys ->
             IF value.t = "number" /\ value.v >= 0 /\ value.v <= Scale
             THEN value ELSE Absent
      [] key = "charset" ->
             IF value.t = "string" /\ value.v > 0 THEN value ELSE Absent
      [] key = "colors" ->
             IF value.t = "array" /\ value.v >= 0 THEN value ELSE Absent
      [] key \in ClampKeys ->
             IF value.t = "number" /\ value.v > 0
             THEN Num(Max(Scale, Min(value.v, MaxRate * Scale))) ELSE Absent
      [] OTHER -> Absent

\* a validation without its last step
OrderDropsAsGiven(validated, defaults) == validated

\* "Ensure minDrops <= maxDrops"
OrderDrops(validated, defaults) ==
    IF validated.minDrops # Absent \/ validated.maxDrops # Absent
    THEN LET min == IF validated.minDrops # Absent
                    THEN validated.minDrops.v ELSE defaults.minDrops.v
             max == IF validated.maxDrops # Absent
                    THEN validated.maxDrops.v ELSE defaults.maxDrops.v
         IN [validated EXCEPT !.minDrops = Num(Min(min, max)),
                              !.maxDrops = Num(Max(min, max))]
    ELSE validated

\* _validateConfig
ValidateConfig(config) ==
    OrderDrops([k \in OptionKeys |->
                   IF config[k] = Absent THEN Absent
                   ELSE ValidateOption(k, config[k])],
               DefaultConfig(MR_val))

\* { ...defaults, ...options }
Merge(defaults, options) ==
    [k \in OptionKeys |-> IF options[k] # Absent THEN options[k] ELSE defaults[k]]

\* this.config after the constructor
EffectiveConfig(v, options) ==
    Merge(DefaultConfig(v), IF v = MR_val THEN ValidateConfig(options) ELSE options)

(***************************************************************************)
(* MatrixRain: the canvas and the drops.  found: the canvas element was    *)
(* there at construction; timer: a resize debounce timer is pending, and   *)
(* fires in wait ms at the earliest;                                       *)
(* span: the widths the window can take; glyph: the width of a 'W' in the  *)
(* font of the canvas; a drop is the identity of its object, x in tenths   *)
(* of a pixel, y in pixels, length and n = chars.length; threw: what setup *)
(* threw; lateLayout (an observation): the layout was computed after       *)
(* destroy().  The device pixel ratio is 1.                                *)
(***************************************************************************)
NoRain ==
    [found |-> TRUE, timer |-> FALSE, wait |-> 0, lateLayout |-> FALSE, options |-> NoOptions,
     config |-> NoOptions, span |-> {0}, width |-> 0, height |-> 0, glyph |-> 1,
     columns |-> 0, drops |-> <<>>, threw |-> "none"]

\* Math.floor((width / (fontSize * 0.8)) * density)
Estimate(width, config) ==
    (width * config.density.v * 10) \div (config.fontSize.v * 8)

\* the while loop of setupCanvas of the extended MatrixRain
RECURSIVE Shrink(_, _)
Shrink(width, config) ==
    IF Estimate(width, config) < Count(config.minDrops) /\ config.fontSize.v > 10 * Scale
    THEN Shrink(width, [config EXCEPT !.fontSize = Num(@.v - Scale)])
    ELSE config

\* columnWidth in tenths of a pixel (validating MatrixRain)
ColumnWidth(glyph) == 12 * glyph

DropIds(drops) == {drops[i].id : i \in 1..Len(drops)}

\* the identities of k new objects: none of those in use
NewDrops(used, k) ==
    LET base == IF used \cap (1..k) = {} THEN 0
                ELSE CHOOSE m \in used : \A u \in used : u <= m
    IN [i \in 1..k |-> base + i]

\* 5 + Math.floor(Math.random() * 15) and the like: the shortest trail and
\* one that is longer
TrailBase(v) == IF v = MR_p1 THEN 3 ELSE 5

LengthChoices(v) == {TrailBase(v), TrailBase(v) + MaxTrailExtra}

\* y of a new drop: Math.random() * -100 and the like
StartChoices == {0 - MaxRise, 0}

Picks(v) ==
    [right : BOOLEAN, y : StartChoices, length : LengthChoices(v)]

FirstPick(v) == [right |-> FALSE, y |-> 0, length |-> TrailBase(v)]

\* the size of a canvas element without width and height attributes
DefaultCanvas == <<300, 150>>

\* Array(length).fill(0).map(() => ({char, alpha: 0, color})): the alpha of
\* every character cell, in hundredths
NewChars(length) == [j \in 1..length |-> 0]

\* createDrops().  pick: what Math.random() gives in this call, the same for
\* every drop: the column (the rightmost one or the first), y and length.
\* alpha: the alpha of the cells of drop.chars, in hundredths.
CreateDropsVal(s, pick) ==
    LET r == s.rain
        F == Count(r.config.fontSize)
        targetDrops == Min(Count(r.config.maxDrops),
                           Max(Count(r.config.minDrops),
                               (r.columns * r.config.density.v) \div Scale))
        oldDrops == r.drops
        ids == NewDrops(DropIds(oldDrops), Max(targetDrops, 0))
        lastX == (r.columns - 1) * ColumnWidth(r.glyph)
        made(i) ==
            IF i <= Len(oldDrops) /\ oldDrops[i].x < r.width * 10
            THEN [oldDrops[i] EXCEPT !.x = Min(@, lastX),
                                     !.y = Min(@, 0 - oldDrops[i].length * F)]
            ELSE [id |-> ids[i], x |-> IF pick.right THEN lastX ELSE 0,
                  y |-> pick.y, length |-> pick.length, n |-> 0, alpha |-> <<>>]
    IN IF r.columns = 0 THEN s
       ELSE [s EXCEPT !.rain.drops =
                [i \in 1..targetDrops |->
                    [made(i) EXCEPT !.n = made(i).length,
                                    !.alpha = IF made(i).n # made(i).length
                                              THEN NewChars(made(i).length)
                                              ELSE @]]]

CreateDropsSimple(s, pick) ==
    LET ids == NewDrops(DropIds(s.rain.drops), Max(s.rain.columns, 0))
    IN [s EXCEPT !.rain.drops =
           [i \in 1..s.rain.columns |->
               [id |-> ids[i], x |-> 0, y |-> pick.y, length |-> pick.length,
                n |-> 0]]]

\* part_001: this.columnPositions is not a field of the class, so
\* this.columnPositions[i] throws a TypeError for the first drop
CreateDropsP1(s, pick) ==
    LET e == [s EXCEPT !.rain.drops = <<>>]
    IN IF s.rain.columns >= 1 THEN [e EXCEPT !.rain.threw = "columnPositions"] ELSE e

\* extended MatrixRain: createDrops with addDrop and resetDropChars
CreateDropsExt(s, pick) ==
    LET r == s.rain
        columnCount == Max(Count(r.config.minDrops),
                           Min((r.width * Scale) \div r.config.columnWidth.v,
                               Count(r.config.maxDrops)))
        count == Max(Min(columnCount, Count(r.config.maxDrops)), 0)
        ids == NewDrops(DropIds(r.drops), count)
    IN [s EXCEPT !.rain.drops =
           [i \in 1..count |->
               [id |-> ids[i], x |-> 0, y |-> pick.y, length |-> pick.length,
                n |-> Min(MaxChars, pick.length)]]]

CreateDrops(v, s, pick) ==
    CASE v = MR_val -> CreateDropsVal(s, pick)
      [] v = MR_simple -> CreateDropsSimple(s, pick)
      [] v = MR_p1 -> CreateDropsP1(s, pick)
      [] v = MR_ext -> CreateDropsExt(s, pick)
      [] OTHER -> s

Abs(x) == IF x < 0 THEN 0 - x ELSE x

(***************************************************************************)
(* updateDrops().  A drop moves by the same number of pixels as the others *)
(* in one update, and by none if no time has passed.                       *)
(***************************************************************************)
Noted(s, d, off, popped) ==
    [s EXCEPT !.hist.frame.resets = IF off THEN @ \cup {d.id} ELSE @,
              !.hist.frame.popped = IF popped THEN @ \cup {d.id} ELSE @]

\* the update of a drop that gives the cells of a new trail alpha 1
UpdateDropValLit(d, step, rnd, height, F, fade) ==
    LET m == [d EXCEPT !.y = @ + step,
                       !.alpha = [j \in 1..Len(@) |->
                                     IF j > 1 THEN Max(0, @[j] - fade) ELSE @[j]]]
    IN IF m.y > height + m.n * F
       THEN [m EXCEPT !.y = 0 - m.n * F, !.n = m.length,
                      !.alpha = [j \in 1..m.length |-> Scale]]
       ELSE m

\* validating MatrixRain: every character but the first is faded by
\* config.fadeFactor, and a drop below the canvas gets a full trail
UpdateDropVal(d, step, rnd, height, F, fade) ==
    LET m == [d EXCEPT !.y = @ + step,
                       !.alpha = [j \in 1..Len(@) |->
                                     IF j > 1 THEN Max(0, @[j] - fade) ELSE @[j]]]
    IN IF m.y > height + m.n * F
       THEN [m EXCEPT !.y = 0 - m.n * F, !.n = m.length,
                      !.alpha = NewChars(m.length)]
       ELSE m

\* simple MatrixRain without the pop of the oldest character
UpdateDropSimpleNoPop(d, step, rnd, height, F) ==
    LET m == [d EXCEPT !.y = @ + step, !.n = IF rnd.grow THEN @ + 1 ELSE @]
    IN IF m.y > height + m.n * F THEN [m EXCEPT !.y = 0 - m.n * F, !.n = 0] ELSE m

\* simple MatrixRain: -chars.length * fontSize is -0 for an empty trail
UpdateDropSimple(d, step, rnd, height, F) ==
    LET g == IF rnd.grow THEN d.n + 1 ELSE d.n
        m == [d EXCEPT !.y = @ + step, !.n = IF g > d.length THEN g - 1 ELSE g]
    IN IF m.y > height + m.n * F THEN [m EXCEPT !.y = 0 - m.n * F, !.n = 0] ELSE m

\* part_001: y = -fontSize * (5 + Math.random() * 20) at the reset.  Where
\* the characters of a trail are is not part of this model:
\* when one is added, the old ones are popped down to drop.length, or all of
\* them if the last one is below the canvas (rnd.keep is false).
UpdateDropP1(d, step, rnd, height, F) ==
    LET g == IF ~rnd.grow THEN d.n
             ELSE IF ~rnd.keep THEN 0
             ELSE Min(d.n + 1, d.length)
        m == [d EXCEPT !.y = @ + step, !.n = g]
    IN IF m.y > height + m.length * F
       THEN [m EXCEPT !.y = 0 - F * (5 - rnd.pick.y), !.n = 0]
       ELSE m

UpdateDrop(v, d, step, rnd, height, F, fade) ==
    CASE v = MR_val -> UpdateDropVal(d, step, rnd, height, F, fade)
      [] v = MR_simple -> UpdateDropSimple(d, step, rnd, height, F)
      [] v = MR_p1 -> UpdateDropP1(d, step, rnd, height, F)

\* the trail of d is full and a character is added
Pops(v, d, rnd) == v \in {MR_simple, MR_p1} /\ rnd.grow /\ d.n = d.length

\* the test of the reset, on the drop as the update has moved it
BelowCanvas(v, d, step, rnd, height, F) ==
    LET n == IF v = MR_simple /\ rnd.grow /\ d.n < d.length THEN d.n + 1 ELSE d.n
    IN IF v = MR_p1 THEN d.y + step > height + d.length * F
       ELSE d.y + step > height + n * F

RECURSIVE UpdateDropsFrom(_, _, _, _)
UpdateDropsFrom(v, s, i, step) ==
    IF i > Len(s.rain.drops) THEN s
    ELSE LET d == s.rain.drops[i]
             rnd == s.hist.frame.rnd
             height == s.rain.height
             F == Count(s.rain.config.fontSize)
             fade == s.rain.config.fadeFactor.v
             u == [s EXCEPT !.rain.drops[i] =
                                UpdateDrop(v, d, step, rnd, height, F, fade)]
         IN UpdateDropsFrom(v, Noted(u, d, BelowCanvas(v, d, step, rnd, height, F),
                                     Pops(v, d, rnd)),
                            i + 1, step)

\* extended MatrixRain: addDrop(x) of updateDrops, at y = -20
AddDrop(s) ==
    LET pick == s.hist.frame.rnd.pick
        id == NewDrops(DropIds(s.rain.drops) \cup DropIds(s.hist.frame.before), 1)[1]
    IN IF Len(s.rain.drops) >= Count(s.rain.config.maxDrops) THEN s
       ELSE [s EXCEPT !.rain.drops =
                Append(@, [id |-> id, x |-> 0, y |-> AddedAt, length |-> pick.length,
                           n |-> Min(MaxChars, pick.length)])]

\* resetDrop(drop)
ResetDrop(d, pick) ==
    [d EXCEPT !.y = pick.y, !.length = pick.length, !.n = Min(MaxChars, pick.length)]

Remove(seq, i) == SubSeq(seq, 1, i - 1) \o SubSeq(seq, i + 1, Len(seq))

\* extended MatrixRain: the loop of updateDrops, from the last drop to the
\* first; a drop that has left the canvas is reset or removed
RECURSIVE UpdateExtFrom(_, _, _)
UpdateExtFrom(s, i, step) ==
    IF i = 0 THEN s
    ELSE LET rnd == s.hist.frame.rnd
             d == [s.rain.drops[i] EXCEPT !.y = @ + step]
             off == 2 * d.y > 2 * s.rain.height
                                  + 3 * d.n * Count(s.rain.config.fontSize)
             m == Noted([s EXCEPT !.rain.drops[i] = d], d, off, FALSE)
         IN IF ~off THEN UpdateExtFrom(m, i - 1, step)
            ELSE IF rnd.keep
            THEN UpdateExtFrom([m EXCEPT !.rain.drops[i] = ResetDrop(d, rnd.pick)],
                               i - 1, step)
            ELSE LET cut == [m EXCEPT !.rain.drops = Remove(@, i)]
                 IN UpdateExtFrom(
                        IF Len(cut.rain.drops) < Count(cut.rain.config.minDrops)
                        THEN AddDrop(cut) ELSE cut,
                        i - 1, step)

UpdateDropsExt(s, step) ==
    LET u == UpdateExtFrom(s, Len(s.rain.drops), step)
    IN IF Len(u.rain.drops) < Count(u.rain.config.maxDrops) /\ u.hist.frame.rnd.spawn
       THEN AddDrop(u) ELSE u

\* updateDrops(deltaTime) of variant v
UpdateDrops(v, s, deltaTime) ==
    LET b == [s EXCEPT !.hist.frame.before = s.rain.drops]
        step == IF deltaTime = 0 THEN 0 ELSE s.hist.frame.rnd.step
    IN IF v = MR_ext THEN UpdateDropsExt(b, step) ELSE UpdateDropsFrom(v, b, 1, step)

\* setupCanvas() for a window of the given size; old: the width and height
\* of the canvas before.  The validating MatrixRain calls createDrops() from
\* it when the canvas has changed by more than ResizeSlack pixels.
SetupCanvas(v, s, width, height, old, pick) ==
    LET sized == [s EXCEPT !.rain.width = width, !.rain.height = height]
        config == s.rain.config
    IN CASE v = MR_val ->
              LET c == [sized EXCEPT !.rain.columns =
                           Max(1, (width * 10) \div ColumnWidth(s.rain.glyph))]
              IN IF Abs(old[1] - width) > ResizeSlack \/ Abs(old[2] - height) > ResizeSlack
                 THEN CreateDropsVal(c, pick) ELSE c
         [] v \in {MR_simple, MR_p1} ->
              [sized EXCEPT !.rain.columns =
                  Min(Max(Estimate(width, config), Count(config.minDrops)),
                      Count(config.maxDrops))]
         [] v = MR_ext ->
              LET columns == Min(Max(Estimate(width, config), Count(config.minDrops)),
                                 Count(config.maxDrops))
                  shrunk == IF columns < Count(config.minDrops)
                            THEN Shrink(width, config) ELSE config
              IN [sized EXCEPT !.rain.config = shrunk,
                               !.rain.columns =
                                   IF columns < Count(config.minDrops)
                                      /\ config.fontSize.v > 10 * Scale
                                   THEN Estimate(width, shrunk) ELSE columns]
         [] OTHER -> s

\* what the resize handler does in the end: setupCanvas() and, except in the
\* validating MatrixRain, createDrops()
Layout(v, s, width, pick) ==
    LET o == [s EXCEPT !.rain.lateLayout = s.hist.destroyed]
        c == SetupCanvas(v, o, width, o.rain.height, <<o.rain.width, o.rain.height>>, pick)
    IN IF v = MR_val THEN c ELSE CreateDrops(v, c, pick)

\* the delay given to setTimeout, which takes whole milliseconds
Delay(v, s) == IF v = MR_ext THEN ExtDebounce ELSE Count(s.rain.config.resizeDebounce)

\* a resize listener that lets a pending timer run on
DebounceKeepPending(s, delay) ==
    [s EXCEPT !.rain.timer = TRUE,
              !.rain.wait = IF s.rain.timer THEN @ ELSE delay]

\* clearTimeout(resizeTimeout); resizeTimeout = setTimeout(..., delay)
Debounce(s, delay) ==
    [s EXCEPT !.rain.timer = TRUE, !.rain.wait = delay]

Heard(s, waiting) ==
    [s EXCEPT !.hist.resize = [since |-> 0], !.hist.relaid.burst = waiting]

\* the resize listener, if one is registered: debounced with setTimeout in
\* the validating and the extended MatrixRain, immediate in the others;
\* that of MouseTrail resizes the canvas, which is not part of this model
HandleResize(v, s, width, pick) ==
    IF v = MR_val /\ <<"resize", "this.handleResize">> \in s.listeners
    THEN Heard(Debounce(s, Delay(v, s)),
               s.rain.timer /\ 0 < s.rain.wait /\ s.rain.wait < Delay(v, s))
    ELSE IF <<"resize", "handleResize (local)">> \in s.listeners
    THEN Heard(Debounce(s, Delay(v, s)),
               s.rain.timer /\ 0 < s.rain.wait /\ s.rain.wait < Delay(v, s))
    ELSE IF <<"resize", "this.handleResize.bind(this)">> \in s.listeners
    THEN Layout(v, s, width, pick)
    ELSE IF v = MR_p1 /\ <<"resize", "this.handleResize">> \in s.listeners
    THEN Layout(v, s, width, pick)
    ELSE s

\* the callback given to setTimeout by the resize listener
ResizeTimeout(v, s, width, pick) ==
    [Layout(v, s, width, pick) EXCEPT
        !.rain.timer = FALSE,
        !.hist.relaid = [fired |-> TRUE, since |-> s.hist.resize.since,
                         burst |-> FALSE],
        !.hist.resize = NoResize]

\* the update step of animate
UpdateParticles(v, s, max, deltaTime, off) ==
    LET u == RanUpdate(s)
    IN CASE v = MT_new -> UpdateParticlesNew(u, max)
         [] v = MT_old -> UpdateParticlesOld(u, deltaTime, off)
         [] v = MT_p1 -> UpdateParticlesP1(u)
         [] OTHER -> UpdateDrops(v, u, deltaTime)

(***************************************************************************)
(* The frame driver.                                                       *)
(***************************************************************************)
\* stop(): the same in every variant
StopOp(v, s) ==
    LET h == [s EXCEPT !.hist = NewPhase(@, "stopped")]
    IN IF h.animationId # NoHandle
       THEN [CancelAnimationFrame(h, h.animationId) EXCEPT !.animationId = NoHandle]
       ELSE h

\* An exception leaves animate where it is thrown.
Throw(s, site) == [s EXCEPT !.hist.frame.threw = site]

\* if (p.opacity <= 0.01) continue
Visible(p) == ~Leq(p.opacity, 1)

\* mouse-trail-new.js drawParticles
DrawParticlesNew(s, hid, fault) ==
    IF hid THEN s
    ELSE IF s.sinceFrame < DrawGate THEN s
    ELSE LET d == RanDraw([s EXCEPT !.sinceFrame = @ % DrawGate])
         IN IF fault \in {"drawClear", "drawText"} THEN Throw(d, fault)
            ELSE [d EXCEPT !.hist.frame.painted = SelectSeq(s.particles, Visible),
                           !.hist.frame.live = IdSeq(s.particles)]

RECURSIVE InsertByOpacity(_, _)
\* p put behind the last particle of seq whose opacity is not above its own
InsertByOpacity(seq, p) ==
    IF seq = <<>> THEN <<p>>
    ELSE IF Above(Last(seq).opacity, p.opacity)
    THEN Append(InsertByOpacity(Front(seq), p), Last(seq))
    ELSE Append(seq, p)

RECURSIVE SortByOpacity(_)
\* [...this.particles].sort((a, b) => a.opacity - b.opacity)
SortByOpacity(seq) ==
    IF seq = <<>> THEN <<>>
    ELSE InsertByOpacity(SortByOpacity(Front(seq)), Last(seq))

\* mouse-trail-new.js animate
AnimateNew(s0, max, hid, fault) ==
    LET s == IF s0.sinceFrame = Unset THEN [s0 EXCEPT !.sinceFrame = 0] ELSE s0
    IN IF s.sinceFrame < JumpLimit
       THEN IF fault = "update"
            THEN Throw(RanUpdate(s), fault)
            ELSE LET d == DrawParticlesNew(
                              UpdateParticles(MT_new, s, max, s.sinceFrame, {}),
                              hid, fault)
                 IN IF d.hist.frame.threw # "none" THEN d ELSE RequestFrame(d)
       ELSE RequestFrame(s)

\* mouse-trail.js animate: this.renderParticles is not a method of the class,
\* so the call throws a TypeError after updateParticles has run.
AnimateOld(s, max, off, fault) ==
    LET delta == IF s.sinceFrame = Unset THEN 0 ELSE s.sinceFrame
        s1 == [s EXCEPT !.sinceFrame = 0]
    IN IF fault = "update"
       THEN Throw(RanUpdate(s1), fault)
       ELSE Throw(UpdateParticles(MT_old, s1, max, Min(delta, DeltaCap), off),
                  "renderParticles")

\* part_001 MouseTrail.animate
AnimateP1(s, max, fault) ==
    LET delta == IF s.sinceFrame = Unset THEN 0 ELSE s.sinceFrame
        s1 == [s EXCEPT !.sinceFrame = 0]
    IN IF fault = "update"
       THEN Throw(RanUpdate(s1), fault)
       ELSE LET u == UpdateParticles(MT_p1, s1, max, Min(delta, DeltaCap), {})
                d == RanDraw(u)
                p == [d EXCEPT !.hist.frame.painted = SortByOpacity(u.particles),
                               !.hist.frame.live = IdSeq(u.particles)]
            IN IF fault # "none" THEN Throw(d, fault) ELSE RequestFrame(p)

\* validating MatrixRain: drawDrops catches what the drawing of the drops
\* throws, and nothing else
DrawDropsVal(s, fault) ==
    LET d == RanDraw(s)
    IN CASE fault = "drawClear" -> Throw(d, fault)
         [] fault = "drawText" -> [Throw(d, fault) EXCEPT !.hist.frame.caught = TRUE]
         [] OTHER -> d

\* validating MatrixRain.animate.  frameInterval = 1000 / fpsLimit, so
\* deltaTime < frameInterval iff deltaTime * fpsLimit < 1000, and
\* deltaTime % frameInterval = ((deltaTime * fpsLimit) % 1000) / fpsLimit,
\* kept to the whole millisecond.
AnimateVal(s, fault) ==
    IF ~s.isRunning THEN s
    ELSE LET delta == s.sinceFrame
         IN IF delta * FpsLimit < 1000
            THEN RequestFrame(s)
            ELSE LET s1 == [s EXCEPT
                               !.sinceFrame = ((delta * FpsLimit) % 1000) \div FpsLimit,
                               !.hist.carry = ((delta * FpsLimit) % 1000) \div FpsLimit,
                               !.hist.frame.gap = delta - s.hist.carry]
                 IN IF fault = "update"
                    THEN Throw(RanUpdate(s1), fault)
                    ELSE LET d == DrawDropsVal(
                                      UpdateParticles(MR_val, s1, 0, delta, {}), fault)
                         IN IF d.hist.frame.threw # "none" /\ ~d.hist.frame.caught
                            THEN d ELSE RequestFrame(d)

\* simple MatrixRain.animate
AnimateSimple(s, fault) ==
    LET delta == IF s.sinceFrame = Unset THEN 0 ELSE s.sinceFrame
        s1 == [s EXCEPT !.sinceFrame = 0]
    IN IF ~s.rain.found
       \* this.drops is undefined: this.drops.forEach throws a TypeError
       THEN Throw(s1, "drops undefined")
       ELSE IF fault = "update"
       THEN Throw(RanUpdate(s1), fault)
       ELSE LET d == RanDraw(UpdateParticles(MR_simple, s1, 0, delta, {}))
            IN IF fault # "none" THEN Throw(d, fault) ELSE RequestFrame(d)

\* part_001 MatrixRain.animate
AnimateRainP1(s, fault) ==
    LET delta == IF s.sinceFrame = Unset THEN 0 ELSE s.sinceFrame
        s1 == [s EXCEPT !.sinceFrame = 0]
    IN IF fault = "update"
       THEN Throw(RanUpdate(s1), fault)
       ELSE LET d == RanDraw(UpdateParticles(MR_p1, s1, 0, delta, {}))
            IN IF fault # "none" THEN Throw(d, fault) ELSE RequestFrame(d)

\* extended MatrixRain.animate; updateDrops writes lastFrameTime = now and
\* animate then writes timestamp - (deltaTime % frameInterval)
AnimateExt(s, fault) ==
    LET delta == IF s.sinceFrame = Unset THEN 0 ELSE s.sinceFrame
    IN IF delta >= ExtFrameInterval
       THEN IF fault = "update"
            THEN Throw(RanUpdate([s EXCEPT !.sinceFrame = 0]), fault)
            ELSE LET u == UpdateParticles(MR_ext, [s EXCEPT !.sinceFrame = 0], 0, delta, {})
                     d == RanDraw(u)
                 IN IF fault # "none" THEN Throw(d, fault)
                    ELSE RequestFrame([d EXCEPT !.sinceFrame = delta % ExtFrameInterval])
       ELSE RequestFrame(s)

\* animate(timestamp) of variant v.  off: the particles that have left the
\* canvas; fault: where the frame throws, if it does ("none", "update",
\* "drawClear": before the particles or drops are painted, "drawText": while
\* they are).
Animate(v, s, max, hid, off, fault) ==
    CASE v = MT_new -> AnimateNew(s, max, hid, fault)
      [] v = MT_old -> AnimateOld(s, max, off, fault)
      [] v = MT_p1 -> AnimateP1(s, max, fault)
      [] v = MR_val -> AnimateVal(s, fault)
      [] v = MR_simple -> AnimateSimple(s, fault)
      [] v = MR_ext -> AnimateExt(s, fault)
      [] v = MR_p1 -> AnimateRainP1(s, fault)

\* start()
StartOp(v, s) ==
    LET h == IF s.hist.phase = "stopped"
             THEN [s EXCEPT !.hist = NewPhase(@, "restarted")] ELSE s
    IN CASE v = MR_val ->
              \* if (this.animationId || !this.ctx) return; ... this.animate()
              IF h.animationId # NoHandle \/ ~h.rain.found THEN h
              ELSE AnimateVal([h EXCEPT !.isRunning = TRUE, !.sinceFrame = 0,
                                        !.hist.carry = 0], "none")
         [] v = MR_simple ->
              \* this.lastTime = 0
              IF h.animationId = NoHandle
              THEN RequestFrame([h EXCEPT !.sinceFrame = Unset]) ELSE h
         [] v = MR_p1 ->
              \* this.lastTime = 0; this.animate(0), which leaves lastTime 0
              IF h.animationId = NoHandle
              THEN [AnimateRainP1([h EXCEPT !.sinceFrame = Unset], "none")
                       EXCEPT !.sinceFrame = Unset]
              ELSE h
         [] OTHER ->
              \* this.lastFrameTime = performance.now()
              IF h.animationId = NoHandle
              THEN RequestFrame([h EXCEPT !.sinceFrame = 0]) ELSE h

(***************************************************************************)
(* Event listeners.  A listener is the pair of the event and the function  *)
(* object given to addEventListener; removeEventListener(event, f) removes *)
(* the pair with that very function object.                                *)
(***************************************************************************)
\* what the constructor registers
AddedListeners(v) ==
    CASE v \in MouseTrails ->
             {<<"mousemove", "this.handleMouseMove">>,
              <<"resize", "this.handleResize">>,
              <<"visibilitychange", "this.handleVisibilityChange">>}
      [] v = MR_val ->
             {<<"resize", "this.handleResize">>,
              <<"orientationchange", "this.handleResize">>,
              <<"visibilitychange", "this.handleVisibilityChange">>,
              <<"unload", "() => this.destroy()">>}
      [] v = MR_simple ->
             {<<"resize", "this.handleResize.bind(this)">>}
      [] v = MR_ext ->
             {<<"resize", "handleResize (local)">>,
              <<"visibilitychange", "() => {...} (anonymous)">>}
      [] v = MR_p1 ->
             {<<"resize", "this.handleResize">>}
      [] v \in ProjectModals -> {}
      [] v = PG_p0 ->
             {<<"click", "handleSmoothScroll">>,
              <<"scroll", "throttle(handleScroll, 100)">>,
              <<"resize", "debounce(handleResize, 200)">>}

\* the removeEventListener calls of destroy(); in the simple MatrixRain
\* this.handleResize is the unbound method, in the extended one
\* this.handleResize and this.handleVisibilityChange are undefined
RemovedListeners(v) ==
    CASE v \in MouseTrails ->
             {<<"mousemove", "this.handleMouseMove">>,
              <<"resize", "this.handleResize">>,
              <<"visibilitychange", "this.handleVisibilityChange">>}
      [] v = MR_val ->
             {<<"resize", "this.handleResize">>,
              <<"orientationchange", "this.handleResize">>,
              <<"visibilitychange", "this.handleVisibilityChange">>}
      [] v = MR_simple ->
             {<<"resize", "this.handleResize">>}
      [] v = MR_ext ->
             {<<"resize", "undefined">>, <<"visibilitychange", "undefined">>}
      [] v = MR_p1 ->
             {<<"resize", "this.handleResize">>}
      [] v = PM_p2 ->
             {<<"document:keydown", "this.handleKeyDown">>,
              <<"modal:keydown", "this.trapFocus">>}
      [] v = PM_pub ->
             {<<"closeButton:click", "this.close">>,
              <<"overlay:click", "this.close">>,
              <<"document:keydown", "this.handleKeyDown">>}

\* destroy() removes the canvas from its parent in MouseTrail and part_001
DetachesCanvas(v) == v \in MouseTrails \cup {MR_p1}

\* destroy().  unbindEvents of the validating MatrixRain hands the id of the
\* resize timer to cancelAnimationFrame, never to clearTimeout, and the
\* extended MatrixRain keeps its timer in a local variable of the listener:
\* a pending timer stays pending.

DestroyOp(v, s) ==
    LET t == StopOp(v, s)
    IN [t EXCEPT !.listeners = @ \ RemovedListeners(v),
                 !.canvasAttached = IF DetachesCanvas(v) THEN FALSE ELSE @,
                 !.hist.destroyed = TRUE]

\* the visibilitychange listener, if one is registered
VisibilityHandler(v, s, hid) ==
    IF <<"visibilitychange", "this.handleVisibilityChange">> \in s.listeners
    THEN IF hid THEN StopOp(v, s) ELSE StartOp(v, s)
    ELSE IF <<"visibilitychange", "() => {...} (anonymous)">> \in s.listeners
    THEN IF hid THEN CancelAnimationFrame(s, s.animationId)
         ELSE RequestFrame([s EXCEPT !.sinceFrame = 0])
    ELSE s

(***************************************************************************)
(* The pointer-move handler of MouseTrail.                                 *)
(***************************************************************************)
RECURSIVE SpawnOld(_, _, _, _, _)
\* for (let i = 0; i < particlesToSpawn; i++) this.createParticle(); the
\* random draws come out the same for every particle of one event
SpawnOld(s, max, life, second, n) ==
    IF n = 0 THEN s
    ELSE CreateParticleOld(SpawnOld(s, max, life, second, n - 1),
                           max, life, second)

\* Math.min(Math.ceil(speed * 0.1 * spawnRate), spawnRate * 3)
ParticlesToSpawn(speed) == Min(CeilDiv(speed * SpawnRate, 10), SpawnRate * 3)

\* now - this.lastMove < limit; lastMove undefined gives NaN, and false
Throttled(since, limit) == since # Unset /\ since < limit

\* s when the handler is entered
Arrived(s) == [s EXCEPT !.hist.move.since = Min(s.sinceMove, MoveThrottleNew),
                        !.hist.move.first = ~s.hist.moved]

HandleMouseMove(v, s, max, speed, life, second) ==
    CASE v = MT_old ->
             IF Throttled(s.sinceMove, MoveThrottleOld)
             THEN [s EXCEPT !.hist.move.result = "throttled"]
             ELSE SpawnOld([s EXCEPT !.sinceMove = 0,
                                     !.hist.move.result = "processed",
                                     !.hist.moved = TRUE,
                                     !.hist.move.wanted = ParticlesToSpawn(speed)],
                           max, life, second, ParticlesToSpawn(speed))
      [] v = MT_new ->
             IF Throttled(s.sinceMove, MoveThrottleNew)
             THEN [s EXCEPT !.hist.move.result = "throttled"]
             ELSE CreateParticleNew([s EXCEPT !.sinceMove = 0,
                                              !.hist.move.result = "processed",
                                              !.hist.moved = TRUE,
                                              !.hist.move.wanted = 1],
                                    max, life)
      [] v = MT_p1 ->
             IF Throttled(s.sinceMove, MoveThrottleOld)
             THEN [s EXCEPT !.hist.move.result = "throttled"]
             ELSE LET m == [s EXCEPT !.sinceMove = 0,
                                     !.hist.move.result = "processed",
                                     !.hist.moved = TRUE,
                                     !.hist.move.wanted = ParticlesToSpawn(speed)]
                  IN IF ParticlesToSpawn(speed) > 0 THEN CreateParticleP1(m) ELSE m
      [] OTHER -> s

(***************************************************************************)
(* The state after construction: createCanvas / getElementById, the        *)
(* listeners, and start().                                                 *)
(***************************************************************************)
MoveSat == RecentMove + TickMs   \* sinceMove is not counted beyond this

Blank(v, since) ==
    [animationId |-> NoHandle, pending |-> {}, isRunning |-> FALSE,
     sinceFrame |-> Unset, sinceMove |-> since, listeners |-> AddedListeners(v),
     canvasAttached |-> TRUE, particles |-> <<>>, particlePool |-> <<>>,
     allocated |-> 0, rain |-> NoRain, throttle |-> NoThrottle, page |-> NoPage,
     hist |-> HistInit]

\* in: what the constructor finds.  A MatrixRain whose canvas element is
\* missing logs an error and returns before it registers or starts anything.
\* Setup throws in part_001 unless there is no column.
Constructed(v, since, in) ==
    IF v \notin RainVariants THEN StartOp(v, Blank(v, since))
    ELSE LET c == [Blank(v, since) EXCEPT
                      !.listeners = {},
                      !.rain.options = in.options,
                      !.rain.config = EffectiveConfig(v, in.options),
                      !.rain.span = in.span,
                      !.rain.glyph = in.glyph]
         IN IF v \in {MR_val, MR_simple} /\ ~in.found
            THEN [c EXCEPT !.rain.found = FALSE]
            ELSE LET d == CreateDrops(v, SetupCanvas(v, c, in.width, in.height,
                                                     DefaultCanvas, in.pick),
                                      in.pick)
                 IN IF d.rain.threw # "none" THEN d
                    ELSE StartOp(v, [d EXCEPT !.listeners = AddedListeners(v)])

\* now - lastMove at construction: lastMove is undefined in mouse-trail.js
\* and 0 (the time origin of the page) in the other two
InitialSinceMove(v) ==
    CASE v = MT_old -> {Unset}
      [] v \in {MT_new, MT_p1} -> {TickMs, MoveSat}
      [] OTHER -> {Unset}

\* the instance is constructed when the page is older than any throttle
LateSinceMove(v) == IF v \in {MT_new, MT_p1} THEN {MoveSat} ELSE {Unset}

InitOf(vs, maxes, hiddens, early, inputs) ==
    /\ variant \in vs
    /\ maxParticles \in maxes
    /\ hidden \in hiddens
    /\ \E in \in inputs[variant], since \in (IF early THEN InitialSinceMove(variant)
                                      ELSE LateSinceMove(variant)) :
         LET c == Constructed(variant, since, in)
         IN /\ animationId = c.animationId
            /\ pending = c.pending
            /\ isRunning = c.isRunning
            /\ sinceFrame = c.sinceFrame
            /\ sinceMove = c.sinceMove
            /\ listeners = c.listeners
            /\ canvasAttached = c.canvasAttached
            /\ particles = c.particles
            /\ particlePool = c.particlePool
            /\ allocated = c.allocated
            /\ rain = c.rain
            /\ throttle = c.throttle
            /\ page = c.page
            /\ hist = c.hist

(***************************************************************************)
(* Actions.                                                                *)
(***************************************************************************)
\* s after a call of the host page
Called(s, halted) == [s EXCEPT !.hist.halted = halted, !.hist.vis = "none"]

\* s after a visibilitychange event
Seen(s, hid) ==
    [s EXCEPT !.hist.vis = IF hid THEN "hidden"
                           ELSE IF @ = "hidden" THEN "shown" ELSE @]

\* the host page calls start()
Start ==
    /\ Commit(Called(StartOp(variant, Fresh(Cur)), FALSE))
    /\ UNCHANGED hidden

\* the host page calls stop()
Stop ==
    /\ Commit(Called(StopOp(variant, Fresh(Cur)), TRUE))
    /\ UNCHANGED hidden

\* the host page calls destroy()
Destroy ==
    /\ Commit(Called(DestroyOp(variant, Fresh(Cur)), TRUE))
    /\ UNCHANGED hidden

\* the page is hidden or shown: a visibilitychange event
VisibilityChange ==
    /\ hidden' = ~hidden
    /\ Commit(Seen(VisibilityHandler(variant, Fresh(Cur), ~hidden), ~hidden))

\* a resize event
Resize ==
    /\ \E width \in rain.span, pick \in Picks(variant) :
         Commit(HandleResize(variant, Fresh(Cur), width, pick))
    /\ UNCHANGED hidden

\* the resize debounce timer fires
ResizeTimer ==
    /\ rain.timer
    /\ rain.wait = 0
    /\ \E width \in rain.span, pick \in Picks(variant) :
         Commit(ResizeTimeout(variant, Fresh(Cur), width, pick))
    /\ UNCHANGED hidden

\* a frame that fires t ms after the frame baseline: not before the longest
\* frame interval of any variant, and less than a second after it
OnTime(t) == ExtFrameInterval <= t /\ t < JumpLimit

FrameFired(s, h) ==
    [Fresh(s) EXCEPT !.pending = @ \ {h},
                     !.hist.frame.fired = TRUE,
                     !.hist.frame.due = OnTime(s.sinceFrame),
                     !.hist.frameSeen = TRUE,
                     !.hist.vis = IF @ = "shown" THEN "none" ELSE @]

OffChoices == IF variant = MT_old THEN SUBSET Ids(particles) ELSE {{}}

StepChoices == 1..MaxStep

\* the outcomes of Math.random() that an update of the drops can see
RndChoices(v) ==
    CASE v = MR_val -> {[NoRnd EXCEPT !.step = st] : st \in StepChoices}
      [] v \in {MR_simple, MR_p1} ->
             {[NoRnd EXCEPT !.step = st, !.grow = g] :
                 st \in StepChoices, g \in BOOLEAN}
      [] v = MR_ext ->
             {[NoRnd EXCEPT !.step = st, !.keep = k, !.spawn = sp, !.pick = pk] :
                 st \in StepChoices, k \in BOOLEAN, sp \in BOOLEAN,
                 pk \in {q \in Picks(v) : ~q.right}}
      [] OTHER -> {NoRnd}

Random(s, rnd) == [s EXCEPT !.hist.frame.rnd = rnd]

\* the browser runs a pending frame callback (never while the page is hidden)
Frame ==
    /\ ~hidden
    /\ \E h \in pending, off \in OffChoices, rnd \in RndChoices(variant) :
         Commit(Random(Animate(variant, Random(FrameFired(Cur, h), rnd),
                               maxParticles, hidden, off, "none"),
                       NoRnd))
    /\ UNCHANGED hidden

\* a frame callback in which update or draw throws
FrameFault ==
    /\ ~hidden
    /\ \E h \in pending, fault \in {"update", "drawClear", "drawText"},
           rnd \in RndChoices(variant) :
         LET r == Random(Animate(variant, Random(FrameFired(Cur, h), rnd),
                                 maxParticles, hidden, {}, fault),
                         NoRnd)
         IN /\ r.hist.frame.threw = fault
            /\ Commit(r)
    /\ UNCHANGED hidden

\* a mousemove event
MouseMove ==
    /\ variant \in MouseTrails
    /\ <<"mousemove", "this.handleMouseMove">> \in listeners
    /\ \E speed \in SpeedChoices, life \in LifeChoices(variant) :
         \E second \in (IF variant = MT_old THEN BOOLEAN ELSE {FALSE}) :
            Commit(HandleMouseMove(variant, Arrived(Fresh(Cur)), maxParticles,
                                   speed, life, second))
    /\ UNCHANGED hidden

Advance(c, dt, cap) == IF c = Unset THEN Unset ELSE Min(c + dt, cap)

\* time passes
Elapse(dt) ==
    /\ sinceFrame' = Advance(sinceFrame, dt, JumpLimit)
    /\ sinceMove' = Advance(sinceMove, dt, MoveSat)
    /\ rain' = [rain EXCEPT !.wait = Max(0, @ - dt)]
    /\ throttle' = [throttle EXCEPT !.wait = Max(0, @ - dt)]
    /\ page' = [page EXCEPT !.debounce.left = Max(0, @ - dt),
                             !.typing.closures =
                                 [k \in DOMAIN @ |->
                                     [@[k] EXCEPT !.left = Max(0, @ - dt)]]]
    /\ hist' = [hist EXCEPT !.frame = NoFrame, !.move = NoMove, !.retired = {},
                            !.relaid = NoRelaid, !.call = NoCall,
                            !.sinceRan = Advance(@, dt, throttle.limit + TickMs),
                            !.sinceCall = Advance(@, dt, page.debounce.wait + TickMs),
                            !.carry = IF sinceFrame' = JumpLimit THEN 0 ELSE @,
                            !.resize.since = Advance(@, Min(dt, rain.wait), JumpLimit)]
    /\ UNCHANGED <<variant, maxParticles, hidden, pending, animationId, isRunning,
                   listeners, canvasAttached, particles, particlePool, allocated>>

\* a short step, while the frame baseline is recent or older than the jump
\* limit (all ages from the jump limit on are the one value JumpLimit), and
\* while the resize a timer waits for is recent
Tick ==
    /\ sinceFrame = Unset \/ sinceFrame < IdleSteps * TickMs \/ sinceFrame = JumpLimit
    /\ rain.wait = 0 \/ hist.resize.since < WaitSteps * TickMs
    /\ Elapse(TickMs)

\* a second without a frame
LongGap ==
    /\ \/ sinceFrame # Unset /\ sinceFrame < JumpLimit
       \/ rain.wait > 0
    /\ Elapse(JumpLimit)

(***************************************************************************)
(* throttle(func, limit) of the page script, and the scroll listener made  *)
(* with it.                                                                *)
(***************************************************************************)
ScrollLimit == 100

ThrottleLimits == {2 * TickMs, ScrollLimit}

\* func.apply(context, args)
Func(s, args) ==
    [s EXCEPT !.hist.call.ran = TRUE, !.hist.sinceRan = 0,
              !.hist.applied = args]

\* the returned function without inThrottle = true
ThrottleNoFlag(s, args) ==
    IF ~s.throttle.inThrottle
    THEN [Func(s, args) EXCEPT !.throttle.timer = TRUE,
                         !.throttle.wait = s.throttle.limit]
    ELSE s

\* the function that throttle returns
Throttle(s, args) ==
    IF ~s.throttle.inThrottle
    THEN [Func(s, args) EXCEPT !.throttle.inThrottle = TRUE,
                         !.throttle.timer = TRUE,
                         !.throttle.wait = s.throttle.limit]
    ELSE s

\* () => inThrottle = false
ThrottleTimeout(s) ==
    [s EXCEPT !.throttle.inThrottle = FALSE, !.throttle.timer = FALSE]

\* a scroll event
Scroll ==
    /\ <<"scroll", "throttle(handleScroll, 100)">> \in listeners
    /\ \E scrollY \in 0..MaxScroll :
         Commit(Throttle([Fresh(Cur) EXCEPT
                             !.hist.call = [made |-> TRUE, ran |-> FALSE,
                                            since |-> hist.sinceRan,
                                            waiting |-> throttle.timer,
                                            args |-> scrollY]],
                         scrollY))
    /\ UNCHANGED hidden

\* the timer of throttle fires, at the end of its delay or later
ThrottleTimer ==
    /\ throttle.timer
    /\ throttle.wait = 0
    /\ Commit(ThrottleTimeout(Fresh(Cur)))
    /\ UNCHANGED hidden

\* the page after init(): setupEventListeners has run
InitThrottle ==
    /\ variant = PG_p0
    /\ maxParticles = MaxCeiling
    /\ hidden = FALSE
    /\ \E limit \in ThrottleLimits :
         LET c == [Blank(PG_p0, Unset) EXCEPT !.throttle.limit = limit]
         IN /\ animationId = c.animationId
            /\ pending = c.pending
            /\ isRunning = c.isRunning
            /\ sinceFrame = c.sinceFrame
            /\ sinceMove = c.sinceMove
            /\ listeners = c.listeners
            /\ canvasAttached = c.canvasAttached
            /\ particles = c.particles
            /\ particlePool = c.particlePool
            /\ allocated = c.allocated
            /\ rain = c.rain
            /\ throttle = c.throttle
            /\ page = c.page
            /\ hist = c.hist

NextThrottle == Scroll \/ ThrottleTimer \/ Tick

SpecThrottle == InitThrottle /\ [][NextThrottle]_vars

(***************************************************************************)
(* debounce(func, wait) of the page script, and the resize listener made   *)
(* with it.                                                                *)
(***************************************************************************)
ResizeWait == 200

DebounceWaits == {2 * TickMs, ResizeWait}

\* the returned function without clearTimeout and without a new timer while
\* one is set
DebouncedCallKeepTimer(s, args) ==
    IF s.page.debounce.timeout
    THEN s
    ELSE [s EXCEPT !.page.debounce.timeout = TRUE,
                   !.page.debounce.left = s.page.debounce.wait,
                   !.page.debounce.args = args]

\* the function that debounce returns
DebouncedCall(s, args) ==
    [s EXCEPT !.page.debounce.timeout = TRUE,
              !.page.debounce.left = s.page.debounce.wait,
              !.page.debounce.args = args]

\* () => func.apply(context, args)
DebounceTimeout(s) ==
    [s EXCEPT !.page.debounce.timeout = FALSE,
              !.hist.call = [made |-> FALSE, ran |-> TRUE,
                             since |-> s.hist.sinceCall, waiting |-> TRUE,
                             args |-> s.page.debounce.args],
              !.hist.applied = s.page.debounce.args]

\* a resize event of the page
PageResize ==
    /\ <<"resize", "debounce(handleResize, 200)">> \in listeners
    /\ \E e \in 0..MaxScroll :
         Commit(DebouncedCall(
                    [Fresh(Cur) EXCEPT
                        !.hist.call = [made |-> TRUE, ran |-> FALSE,
                                       since |-> hist.sinceCall,
                                       waiting |-> page.debounce.timeout,
                                       args |-> e],
                        !.hist.sinceCall = 0],
                    e))
    /\ UNCHANGED hidden

\* the timer of debounce fires, at the end of its delay or later
DebounceTimer ==
    /\ page.debounce.timeout
    /\ page.debounce.left = 0
    /\ Commit(DebounceTimeout(Fresh(Cur)))
    /\ UNCHANGED hidden

\* the page after init(): setupEventListeners has run
InitDebounce ==
    /\ variant = PG_p0
    /\ maxParticles = MaxCeiling
    /\ hidden = FALSE
    /\ \E wait \in DebounceWaits :
         LET c == [Blank(PG_p0, Unset) EXCEPT !.page.debounce.wait = wait]
         IN /\ animationId = c.animationId
            /\ pending = c.pending
            /\ isRunning = c.isRunning
            /\ sinceFrame = c.sinceFrame
            /\ sinceMove = c.sinceMove
            /\ listeners = c.listeners
            /\ canvasAttached = c.canvasAttached
            /\ particles = c.particles
            /\ particlePool = c.particlePool
            /\ allocated = c.allocated
            /\ rain = c.rain
            /\ throttle = c.throttle
            /\ page = c.page
            /\ hist = c.hist

NextDebounce == PageResize \/ DebounceTimer \/ Tick

SpecDebounce == InitDebounce /\ [][NextDebounce]_vars

(***************************************************************************)
(* ProjectModal, of part_002 and of public/static/js/project-modal.js.     *)
(***************************************************************************)
MaxProject == 2      \* the projects of the page are 1..MaxProject

\* the argument of open(project): a project of the page, or none
Projects == {Unset} \cup 1..MaxProject

Keys == {"Escape", "Tab", "a"}

FocusAt == {"first", "last", "elsewhere"}

Invoked(s, method) == [s EXCEPT !.hist.modal.invoked = @ \cup {method}]

Dispatched(s, event) == [s EXCEPT !.hist.modal.dispatched = Append(@, event)]

\* bindEvents(): every listener is a new function object, an arrow function
\* or the result of bind
ModalBindEvents(v, m) ==
    IF v = PM_p2
    THEN {<<"closeButton:click", "() => this.close()">>,
          <<"modal:keydown", "this.trapFocus.bind(this)">>}
         \cup (IF m.closeOnOverlayClick
               THEN {<<"overlay:click", "() => this.close()">>} ELSE {})
         \cup (IF m.closeOnEsc
               THEN {<<"document:keydown", "this.handleKeyDown.bind(this)">>}
               ELSE {})
    ELSE {<<"closeButton:click", "() => this.close()">>,
          <<"overlay:click",
            "() => { if (this.options.closeOnOverlayClick) this.close(); }">>}
         \cup (IF m.closeOnEsc
               THEN {<<"document:keydown", "this.handleKeyDown.bind(this)">>}
               ELSE {})

\* close()
ModalClose(v, s) ==
    LET t == Invoked(s, "close")
        u == [t EXCEPT !.page.modal.ariaHidden = TRUE,
                       !.page.modal.active = FALSE,
                       !.page.modal.overflow = "",
                       !.page.modal.isOpen = FALSE]
    IN IF v = PM_p2 THEN u
       ELSE IF ~s.page.modal.isOpen THEN t
       ELSE Dispatched(u, "projectModal:close")

\* open() without if (this.isOpen) return
ModalOpenAgain(v, s, project) ==
    LET t == Invoked(s, "open")
        u == [t EXCEPT !.page.modal.content = project,
                       !.page.modal.ariaHidden = FALSE,
                       !.page.modal.active = TRUE,
                       !.page.modal.overflow = "hidden",
                       !.page.modal.isOpen = TRUE]
    IN IF v = PM_p2
       THEN IF project = Unset THEN t
            ELSE [u EXCEPT !.page.modal.focus = "first"]
       ELSE IF project = Unset THEN [t EXCEPT !.hist.modal.threw = TRUE]
       ELSE Dispatched(u, "projectModal:open")

\* open(project).  Without a project, part_002 logs an error and returns,
\* and project-modal.js throws in updateContent, at project.title.  The
\* focusable elements of part_002 begin with the overlay; this.modal.focus()
\* of project-modal.js is on a div without tabindex and moves no focus.
ModalOpen(v, s, project) ==
    LET t == Invoked(s, "open")
        u == [t EXCEPT !.page.modal.content = project,
                       !.page.modal.ariaHidden = FALSE,
                       !.page.modal.active = TRUE,
                       !.page.modal.overflow = "hidden",
                       !.page.modal.isOpen = TRUE]
    IN IF v = PM_p2
       THEN IF project = Unset THEN t
            ELSE [u EXCEPT !.page.modal.focus = "first"]
       ELSE IF s.page.modal.isOpen THEN t
       ELSE IF project = Unset THEN [t EXCEPT !.hist.modal.threw = TRUE]
       ELSE Dispatched(u, "projectModal:open")

\* trapFocus(e) after its test of e.key
ModalTrapFocus(s, shift) ==
    LET t == Invoked(s, "trapFocus")
    IN IF shift /\ s.page.modal.focus = "first"
       THEN [t EXCEPT !.page.modal.focus = "last", !.hist.modal.prevented = TRUE]
       ELSE IF ~shift /\ s.page.modal.focus = "last"
       THEN [t EXCEPT !.page.modal.focus = "first", !.hist.modal.prevented = TRUE]
       ELSE t

\* handleKeyDown(e)
ModalHandleKeyDown(v, s, key, shift) ==
    LET t == Invoked(s, "handleKeyDown")
        u == IF key = "Escape" /\ t.page.modal.isOpen THEN ModalClose(v, t) ELSE t
    IN IF v = PM_pub /\ key = "Tab" /\ u.page.modal.isOpen
       THEN ModalTrapFocus(u, shift)
       ELSE u

\* a keydown event travels from its target to the document; target is the
\* modal when the key is pressed inside it
ModalKeyDownEvent(v, s, target, key, shift) ==
    LET t == IF /\ target = "modal"
                /\ <<"modal:keydown", "this.trapFocus.bind(this)">> \in s.listeners
             THEN IF key = "Tab" THEN ModalTrapFocus(s, shift)
                  ELSE Invoked(s, "trapFocus")
             ELSE s
    IN IF <<"document:keydown", "this.handleKeyDown.bind(this)">> \in t.listeners
       THEN ModalHandleKeyDown(v, t, key, shift)
       ELSE t

\* a click on the close button or on the overlay
ModalClickEvent(v, s, target) ==
    IF target = "closeButton"
    THEN IF <<"closeButton:click", "() => this.close()">> \in s.listeners
         THEN ModalClose(v, s) ELSE s
    ELSE IF <<"overlay:click", "() => this.close()">> \in s.listeners
    THEN ModalClose(v, s)
    ELSE IF /\ <<"overlay:click",
                 "() => { if (this.options.closeOnOverlayClick) this.close(); }">>
                   \in s.listeners
            /\ s.page.modal.closeOnOverlayClick
    THEN ModalClose(v, s)
    ELSE s

\* destroy()
ModalDestroy(v, s) ==
    [s EXCEPT !.listeners = @ \ RemovedListeners(v),
              !.page.modal.attached = FALSE,
              !.hist.destroyed = TRUE]

Step(s, op) == [Fresh(s) EXCEPT !.hist.modal.op = op]

\* the host page calls open(project)
CallOpen ==
    /\ \E project \in Projects :
         Commit(ModalOpen(variant, Step(Cur, "open"), project))
    /\ UNCHANGED hidden

\* the host page calls close()
CallClose ==
    /\ Commit(ModalClose(variant, Step(Cur, "close")))
    /\ UNCHANGED hidden

\* a key is pressed: inside the modal while it is in the document, or
\* elsewhere; a Tab that no listener prevented moves the focus
KeyDown ==
    /\ \E target \in {"document"} \cup (IF page.modal.attached THEN {"modal"} ELSE {}),
          key \in Keys, shift \in BOOLEAN, next \in FocusAt :
         LET r == ModalKeyDownEvent(variant, Step(Cur, "keydown"), target, key, shift)
         IN Commit(IF key = "Tab" /\ ~r.hist.modal.prevented
                   THEN [r EXCEPT !.page.modal.focus = next]
                   ELSE r)
    /\ UNCHANGED hidden

\* the user clicks the close button or the overlay of a modal in the document
Click ==
    /\ page.modal.attached
    /\ \E target \in {"closeButton", "overlay"} :
         Commit(ModalClickEvent(variant, Step(Cur, "click"), target))
    /\ UNCHANGED hidden

\* the host page calls destroy()
CallDestroy ==
    /\ ~hist.destroyed
    /\ Commit(ModalDestroy(variant, Step(Cur, "destroy")))
    /\ UNCHANGED hidden

\* new ProjectModal(options)
InitModal ==
    /\ variant \in ProjectModals
    /\ maxParticles = MaxCeiling
    /\ hidden = FALSE
    /\ \E esc \in BOOLEAN, overlay \in BOOLEAN :
         LET m == [NoModal EXCEPT !.attached = TRUE, !.closeOnEsc = esc,
                                  !.closeOnOverlayClick = overlay]
             c == [Blank(variant, Unset) EXCEPT
                      !.page.modal = m,
                      !.listeners = ModalBindEvents(variant, m)]
         IN /\ animationId = c.animationId
            /\ pending = c.pending
            /\ isRunning = c.isRunning
            /\ sinceFrame = c.sinceFrame
            /\ sinceMove = c.sinceMove
            /\ listeners = c.listeners
            /\ canvasAttached = c.canvasAttached
            /\ particles = c.particles
            /\ particlePool = c.particlePool
            /\ allocated = c.allocated
            /\ rain = c.rain
            /\ throttle = c.throttle
            /\ page = c.page
            /\ hist = c.hist

NextModal == CallOpen \/ CallClose \/ KeyDown \/ Click \/ CallDestroy

SpecModal == InitModal /\ [][NextModal]_vars

\* the frame driver is that of a rain without drops, whose canvas element
\* is there or not
NoDrops(v) ==
    IF v = MR_val
    THEN [NoOptions EXCEPT !.minDrops = Num(Scale \div 2), !.density = Whole(0),
                           !.resizeDebounce = Whole(2 * TickMs)]
    ELSE [NoOptions EXCEPT !.minDrops = Whole(0), !.maxDrops = Whole(0)]

Lookups ==
    [v \in Variants |->
        {[found |-> b, options |-> NoDrops(v), span |-> {Wide}, width |-> Wide,
          height |-> Wide, glyph |-> Glyph, pick |-> p] :
             b \in BOOLEAN, p \in {FirstPick(v)}}]

Init == InitOf(Variants, {MaxCeiling}, BOOLEAN, FALSE, Lookups)

Next ==
    \/ Start \/ Stop \/ Destroy \/ VisibilityChange \/ Resize \/ ResizeTimer
    \/ Frame \/ Tick \/ LongGap

\* the frame driver of every variant
Spec == Init /\ [][Next]_vars

\* the same in a window that keeps its size, with frames in which update or
\* draw throws
NextFault ==
    \/ Start \/ Stop \/ Destroy \/ VisibilityChange
    \/ Frame \/ FrameFault \/ Tick \/ LongGap

SpecFault == Init /\ [][NextFault]_vars

\* the particle store of MouseTrail: pointer moves and frames
InitParticles == InitOf(MouseTrails, 1..MaxCeiling, {FALSE}, TRUE, Lookups)

NextParticles == MouseMove \/ Frame \/ Tick \/ LongGap

\* One particle of a trail whose particleLifetime is 60 frames, and a second
\* of updateParticles(16) calls.  hist.steps counts the calls.
ScenarioLifetime == 60

StepMs == DrawGate        \* the fixed step: a frame of 16 ms

ScenarioMs == JumpLimit   \* one second

\* the pointer move that emits the particle
Emit ==
    /\ variant \in {MT_old, MT_new}
    /\ ~hist.moved
    /\ \E life \in Lifetimes(variant, ScenarioLifetime) :
         Commit(HandleMouseMove(variant, Arrived(Fresh(Cur)), maxParticles,
                                1, life, FALSE))
    /\ UNCHANGED hidden

\* updateParticles(16), while the second has not passed
FixedStep ==
    /\ hist.moved
    /\ hist.steps * StepMs < ScenarioMs
    /\ Commit([UpdateParticles(variant, Fresh(Cur), maxParticles, StepMs, {})
                   EXCEPT !.hist.steps = @ + 1])
    /\ UNCHANGED hidden

InitLifetime == InitOf({MT_old, MT_new}, {MaxCeiling}, {FALSE}, FALSE, Lookups)

NextLifetime == Emit \/ FixedStep

SpecLifetime == InitLifetime /\ [][NextLifetime]_vars

\* mouse-trail.js with a ceiling that leaves room for a second particle
InitSpawn == InitOf({MT_old}, {MaxCeiling + 1}, {FALSE}, TRUE, Lookups)

NextSpawn == MouseMove \/ Tick \/ LongGap

SpecSpawn == InitSpawn /\ [][NextSpawn]_vars

SpecParticles == InitParticles /\ [][NextParticles]_vars

(***************************************************************************)
(* Setup of MatrixRain: the options, the width of the window, resizes.     *)
(***************************************************************************)
DropValues ==
    {Absent, Str(1), Num(0 - Scale), Num(Scale \div 2)}
        \cup {Whole(k) : k \in 1..MaxDropsCfg}

\* the other options: none; valid ones, one of them above the range it is
\* cut to, the default resizeDebounce given in so many words, and a name
\* that is not known; values of the wrong type or out of range
OtherOptions ==
    {NoOptions,
     [NoOptions EXCEPT !.density = Num(Scale \div 2), !.fpsLimit = Whole(MaxRate + 1),
                       !.resizeDebounce = DefaultConfig(MR_val).resizeDebounce,
                       !.charset = Str(1), !.columnWidth = Whole(20)],
     [NoOptions EXCEPT !.density = Num(Scale + Scale \div 2), !.fpsLimit = NotANumber,
                       !.charset = Str(0), !.colors = BadArray]}

\* options objects for the validating MatrixRain
ValOptions ==
    {[o EXCEPT !.minDrops = a, !.maxDrops = b] :
        o \in OtherOptions, a \in DropValues, b \in DropValues}

\* options objects for the classes that take them as they are
RawOptions ==
    {[NoOptions EXCEPT !.minDrops = a, !.maxDrops = b, !.density = d,
                       !.fontSize = f] :
        a \in {Absent} \cup {Whole(k) : k \in 0..MaxDropsCfg},
        b \in {Absent} \cup {Whole(k) : k \in 0..MaxDropsCfg},
        d \in {Absent, Whole(0), Num(Scale \div 2), Whole(1)},
        f \in {Absent, Whole(10)}}

\* {minDrops: 5, maxDrops: 5, fontSize: 10} in a container 100 pixels wide
ClaimedSetup ==
    [NoOptions EXCEPT !.minDrops = Whole(5), !.maxDrops = Whole(5),
                      !.fontSize = Whole(10)]

Widths == {30, Wide}

SetupInputs ==
    [v \in RainVariants |->
        {[found |-> TRUE, options |-> o, span |-> Widths, width |-> w,
          height |-> Wide, glyph |-> Glyph, pick |-> p] :
             o \in (CASE v = MR_val -> ValOptions
                      [] v = MR_p1 -> RawOptions \cup {ClaimedSetup}
                      [] OTHER -> RawOptions),
             w \in Widths,
             p \in {FirstPick(v), [FirstPick(v) EXCEPT !.right = TRUE]}}]

InitSetup == InitOf(RainVariants, {MaxCeiling}, {FALSE}, FALSE, SetupInputs)

NextSetup == Resize \/ ResizeTimer \/ LongGap

SpecSetup == InitSetup /\ [][NextSetup]_vars

(***************************************************************************)
(* The drops of MatrixRain: a rain of one drop in a small window, a font   *)
(* of one pixel; in the extended MatrixRain, which adds and removes drops, *)
(* a rain of one drop at most; the rain of part_001 also without a drop,   *)
(* as its setup throws otherwise.                                          *)
(***************************************************************************)
DropsOptions(v) ==
    LET one == [NoOptions EXCEPT !.minDrops = Whole(1), !.maxDrops = Whole(1),
                                 !.fontSize = Whole(1),
                                 !.resizeDebounce = Whole(2 * TickMs)]
    IN CASE v = MR_ext -> {[one EXCEPT !.minDrops = Whole(0)]}
         [] v = MR_p1 -> {one, [one EXCEPT !.minDrops = Whole(0),
                                           !.maxDrops = Whole(0)]}
         [] OTHER -> {one}

DropsInputs ==
    [v \in RainVariants |->
        {[found |-> TRUE, options |-> o, span |-> {Low}, width |-> Low,
          height |-> Low, glyph |-> 1, pick |-> p] :
             o \in DropsOptions(v), p \in {q \in Picks(v) : ~q.right}}]

InitDrops == InitOf(RainVariants, {MaxCeiling}, {FALSE}, FALSE, DropsInputs)

NextDrops == Frame \/ Tick \/ LongGap \/ Resize \/ ResizeTimer

SpecDrops == InitDrops /\ [][NextDrops]_vars

(***************************************************************************)
(* Properties.                                                             *)
(***************************************************************************)
PointerEvents == {"resize", "visibilitychange", "mousemove"}

MoveProcessed == hist.move.result = "processed"

\* the last createParticle of the event found the live list at the ceiling
CreatedAtCeiling ==
    /\ MoveProcessed
    /\ hist.move.wanted >= 1
    /\ Len(hist.move.before) = maxParticles

\* C1: for every engine, no update or draw runs between stop() and the next
\* start(), not even from the callback that was pending at stop(); after
\* that start() a frame callback is pending while the page is shown, and
\* every frame that then fires on time runs update and draw.
C1_StopSilencesStartResumes ==
    /\ hist.phase = "stopped" => ~hist.ranUpdate /\ ~hist.ranDraw
    /\ hist.phase = "restarted" /\ ~hist.frameSeen /\ ~hidden => pending # {}
    /\ hist.phase = "restarted" /\ hist.frame.fired /\ hist.frame.due
           => hist.frame.updated /\ hist.frame.drew

\* C2: after any interleaving of start(), stop(), visibility changes and
\* frames, also for an engine constructed while the page is hidden, an
\* instance has at most one frame callback pending.
C2_AtMostOnePendingFrame == Cardinality(pending) <= 1

\* C3: when update or draw throws in a frame, the exception is caught by the
\* frame driver and the next frame is requested all the same: the handle in
\* animationId is that of a pending callback.
C3_ThrowingFrameRequestsNext ==
    hist.frame.fired /\ hist.frame.threw \in {"update", "drawClear", "drawText"}
        => animationId \in pending

\* C4: in mouse-trail.js every frame callback runs the update step, then the
\* render step, then requests the next frame.
C4_EveryFrameUpdatesRendersRequests ==
    variant = MT_old /\ hist.frame.fired
        => /\ hist.frame.updated
           /\ hist.frame.drew
           /\ hist.frame.threw = "none"
           /\ animationId \in pending

\* C5: in mouse-trail.js and mouse-trail-new.js, for maxParticles >= 1 and
\* after any pointer moves and frames, particles.length is at most
\* config.maxParticles.
C5_LiveCountWithinCeiling ==
    variant \in {MT_old, MT_new} /\ maxParticles >= 1
        => Len(particles) <= maxParticles

C5_Witness ==
    /\ variant = MT_old
    /\ CreatedAtCeiling
    /\ Len(particles) = maxParticles
    /\ maxParticles = MaxCeiling

\* C6: a createParticle call that finds maxParticles live particles removes
\* the former head of the live sequence and appends the new particle: the
\* count is still maxParticles and the others keep their order.
C6_CeilingEvictsOldest ==
    variant \in {MT_old, MT_new} /\ CreatedAtCeiling
        => /\ Len(hist.move.after) = maxParticles
           /\ Front(hist.move.after) = Tail(hist.move.before)
           /\ hist.move.after = IdSeq(particles)

C6_Witness ==
    /\ variant = MT_new
    /\ CreatedAtCeiling
    /\ maxParticles = MaxCeiling
    /\ Len(hist.move.after) = maxParticles
    /\ Head(hist.move.after) # Head(hist.move.before)

\* C7: in mouse-trail-new.js every particle retired by a frame is in the
\* pool after it, no object is allocated while the pool has one or the live
\* list is full (every object allocated is live or pooled), and live count
\* plus pool size is at most maxParticles.
C7_PoolAccounting ==
    variant = MT_new
        => /\ hist.retired \subseteq Ids(particlePool)
           /\ allocated = Len(particles) + Len(particlePool)
           /\ Len(particles) + Len(particlePool) <= maxParticles

C7_Witness ==
    /\ variant = MT_new
    /\ hist.retired # {}
    /\ Len(particles) >= 1
    /\ Len(particles) + Len(particlePool) = maxParticles

\* C8: in the MouseTrail of part_001 a pointer move that passes the throttle
\* and spawns at least one particle completes createParticle without error
\* and appends a particle to the live list.
C8_SpawningMoveCompletes ==
    variant = MT_p1 /\ hist.move.result # "none" /\ hist.move.result # "throttled"
                    /\ hist.move.wanted >= 1
        => /\ hist.move.result = "processed"
           /\ Len(particles) >= 1

\* C9: after destroy() no resize, visibilitychange or pointer-move listener
\* that the instance registered is still registered.
C9_DestroyRemovesListeners ==
    hist.destroyed => \A l \in listeners : l[1] \notin PointerEvents

\* C10: after destroy() the canvas is not attached to a parent element.
C10_DestroyDetachesCanvas == hist.destroyed => ~canvasAttached

\* C11: once destroy() has returned on the validating MatrixRain none of
\* its callbacks runs any more: no frame updates or draws, and the layout
\* is not computed again, not even for a resize event that arrived less
\* than the debounce interval before destroy().
C11_NothingRunsAfterDestroy ==
    variant = MR_val /\ hist.destroyed
        => /\ ~rain.lateLayout
           /\ hist.phase = "stopped" => ~hist.ranUpdate /\ ~hist.ranDraw

\* C12: for an engine the host has neither stopped nor destroyed, the frame
\* driver is stopped from the moment the page is hidden until it is shown
\* again, and a frame is requested from the moment it is shown again.
C12_HiddenPausesShownResumes ==
    ~hist.halted /\ rain.found
        => /\ hist.vis = "hidden" => pending = {}
           /\ hist.vis = "shown" => animationId \in pending

\* C13: a MatrixRain constructed for a canvas element that does not exist
\* stays inert: no listener, no frame request, no frame, no exception,
\* whatever is called on it afterwards.
C13_MissingCanvasStaysInert ==
    variant \in MatrixRains /\ ~rain.found
        => /\ listeners = {}
           /\ pending = {}
           /\ animationId = NoHandle
           /\ ~hist.frameSeen
           /\ hist.frame.threw = "none"

\* floor(width / columnWidth * density), columnWidth being 1.2 times the
\* width of a 'W' in the validating MatrixRain and 0.8 times the font size in
\* the others
RawEstimate ==
    IF variant = MR_val
    THEN (rain.width * 10 * rain.config.density.v) \div (ColumnWidth(rain.glyph) * Scale)
    ELSE Estimate(rain.width, rain.config)

\* C14: after setup the number of drops is
\* clamp(floor(width / columnWidth * density), minDrops, maxDrops), whenever
\* minDrops <= maxDrops.
C14_DropCountIsClampedEstimate ==
    /\ variant \in RainVariants
    /\ rain.found
    /\ rain.threw = "none"
    /\ Count(rain.config.minDrops) <= Count(rain.config.maxDrops)
    => Len(rain.drops) = Max(Count(rain.config.minDrops),
                             Min(RawEstimate, Count(rain.config.maxDrops)))

\* C15: the MatrixRain of part_001 given minDrops = maxDrops = n completes
\* its setup and holds exactly n drops.
C15_EqualBoundsGiveThatManyDrops ==
    /\ variant = MR_p1
    /\ rain.options.minDrops # Absent
    /\ rain.options.minDrops = rain.options.maxDrops
    => /\ rain.threw = "none"
       /\ Len(rain.drops) = Count(rain.options.minDrops)

\* what the specification of the options calls valid: a positive number, a
\* number from 0 to 1, a string that is not empty, an array of #RRGGBB
InRange(key, value) ==
    CASE key \in FloorKeys \cup ClampKeys -> value.t = "number" /\ value.v > 0
      [] key \in UnitKeys -> value.t = "number" /\ 0 <= value.v /\ value.v <= Scale
      [] key = "charset" -> value.t = "string" /\ value.v >= 1
      [] key = "colors" -> value.t = "array" /\ value.v >= 0
      [] OTHER -> FALSE

\* a valid value as the configuration holds it: whole, or within 1 .. 144
Applied(key, value) ==
    CASE key \in FloorKeys -> Num(value.v - (value.v % Scale))
      [] key \in ClampKeys ->
             IF value.v < Scale THEN Whole(1)
             ELSE IF value.v > MaxRate * Scale THEN Whole(MaxRate) ELSE value
      [] OTHER -> value

\* the value of a recognized option if it is given and valid, else the default
Wanted(key) ==
    IF rain.options[key] # Absent /\ InRange(key, rain.options[key])
    THEN Applied(key, rain.options[key])
    ELSE DefaultConfig(MR_val)[key]

C20_MinDropsAtMostMaxDrops ==
    variant = MR_val => rain.config.minDrops.v <= rain.config.maxDrops.v

C20_Witness ==
    /\ variant = MR_val
    /\ rain.options.minDrops = Whole(MaxDropsCfg)
    /\ rain.options.maxDrops = Whole(1)
    /\ rain.config.minDrops = Whole(1)
    /\ rain.config.maxDrops = Whole(MaxDropsCfg)

\* C16: a drop never has more character cells than its trail length.
C16_CharsWithinTrailLength ==
    \A i \in 1..Len(rain.drops) : rain.drops[i].n <= rain.drops[i].length

C16_Witness ==
    /\ variant = MR_simple
    /\ hist.frame.updated
    /\ \E i \in 1..Len(rain.drops) :
          /\ rain.drops[i].id \in hist.frame.popped
          /\ rain.drops[i].n = rain.drops[i].length

\* C17: the update that finds a drop below the canvas leaves that drop
\* object in the rain with a strictly negative y and no character cell.
C17_ResetDropIsAboveAndEmpty ==
    \A id \in hist.frame.resets :
        \E i \in 1..Len(rain.drops) :
            /\ rain.drops[i].id = id
            /\ rain.drops[i].y < 0
            /\ rain.drops[i].n = 0

\* C18: an update leaves the drop objects of the rain as they were: none is
\* created, none is removed.
C18_UpdateKeepsTheDropObjects ==
    hist.frame.updated /\ variant \in RainVariants
        => [i \in 1..Len(rain.drops) |-> rain.drops[i].id]
               = [i \in 1..Len(hist.frame.before) |-> hist.frame.before[i].id]

\* C21: every numeric rate and size of the configuration of the validating
\* MatrixRain is strictly greater than 0, whatever the options were.
C21_NumericOptionsPositive ==
    variant = MR_val
        => \A key \in FloorKeys \cup ClampKeys : rain.config[key].v > 0

\* the minimum interval of the pointer-move handler
MoveLimit(v) == IF v = MT_new THEN MoveThrottleNew ELSE MoveThrottleOld

\* a processed pointer move that is not the first one comes at least the
\* minimum interval after the processed one before it
ProcessedMovesApart ==
    variant \in {MT_old, MT_new} /\ MoveProcessed /\ ~hist.move.first
        => hist.move.since >= MoveLimit(variant)

\* a pointer move that is dropped changes nothing of the trail
DroppedMoveChangesNothing ==
    [][hist'.move.result = "throttled"
          => UNCHANGED <<pending, animationId, isRunning, sinceFrame, sinceMove,
                         listeners, canvasAttached, particles, particlePool,
                         allocated>>]_vars

\* the first pointer move after construction is not dropped
FirstMoveProcessed ==
    variant \in {MT_old, MT_new} /\ hist.move.first
        => hist.move.result # "throttled"

\* C22: the pointer-move handler of mouse-trail.js and mouse-trail-new.js is
\* throttled: two processed events are at least 8 ms (16 ms) apart, an event
\* that comes sooner changes no state, and the first event after
\* construction is processed.
C22_PointerMoveThrottled ==
    /\ []ProcessedMovesApart
    /\ DroppedMoveChangesNothing
    /\ []FirstMoveProcessed

\* C23: one processed pointer move of mouse-trail.js adds at most
\* spawnRate * 3 particles to the live ones, whatever the pointer speed.
C23_SpawnAtMostThreeTimesRate ==
    variant = MT_old /\ MoveProcessed
        => hist.move.added <= SpawnRate * 3

\* the particle of the list with this identity
ParticleOf(seq, id) == seq[CHOOSE i \in 1..Len(seq) : seq[i].id = id]

\* an update of the frame raises the opacity of no particle that stays live
OpacityNeverRises ==
    [][variant = MT_new /\ hist'.frame.updated
          => \A id \in Ids(particles) \cap Ids(particles') :
                 ~Above(ParticleOf(particles', id).opacity,
                        ParticleOf(particles, id).opacity)]_vars

\* a particle retired by the update of this frame has faded to 0.01 or less
RetiredHaveFaded ==
    variant = MT_new
        => \A i \in 1..Len(particlePool) :
               particlePool[i].id \in hist.retired
                   => Leq(particlePool[i].opacity, 1)

\* C24: the opacity of a particle never increases from one frame update to
\* the next, and it is 0.01 or less by the update that removes the particle.
C24_OpacityFadesOutBeforeRemoval ==
    /\ OpacityNeverRises
    /\ []RetiredHaveFaded

\* C25: a particle of a trail with particleLifetime 60, whatever lifetime
\* createParticle gave it, is retired once updateParticles has run with a
\* step of 16 ms for 1000 ms: it has left the live particles and, in
\* mouse-trail-new.js, is in the pool.
C25_RetiredWithinOneSecond ==
    hist.moved /\ hist.steps * StepMs >= ScenarioMs
        => /\ particles = <<>>
           /\ variant = MT_new => Len(particlePool) = 1

\* the classes whose resize listener is debounced
Debounced == {MR_val, MR_ext}

C27_ResizeKeepsDropsInside ==
    [][variant = MR_val /\ hist'.relaid.fired
          => \A i \in 1..Len(rain.drops) :
                 rain.drops[i].x < rain'.width * 10
                     => \E j \in 1..Len(rain'.drops) :
                            /\ rain'.drops[j].id = rain.drops[i].id
                            /\ rain'.drops[j].y = rain.drops[i].y
                            /\ rain'.drops[j].n = rain.drops[i].n]_vars

\* C28: a frame callback of the validating MatrixRain runs update and draw
\* only when at least 1000 / fpsLimit ms have passed since the callback that
\* ran them last, and otherwise neither of them.
C28_FrameRateCapped ==
    variant = MR_val /\ hist.frame.fired
        => IF hist.frame.updated \/ hist.frame.drew
           THEN hist.frame.gap * FpsLimit >= 1000
           ELSE hist.frame.gap = Unset

\* C29: the draw step paints the live particles in ascending order of
\* opacity, a particle painted later having an opacity greater than or equal
\* to that of one painted earlier, and leaves the order of the live array
\* as it was.
C29_PaintedInAscendingOpacity ==
    variant \in {MT_new, MT_p1} /\ hist.frame.drew
        => /\ \A i, j \in 1..Len(hist.frame.painted) :
                  i < j => Leq(hist.frame.painted[i].opacity,
                               hist.frame.painted[j].opacity)
           /\ hist.frame.threw = "none" => IdSeq(particles) = hist.frame.live

\* C30: of the calls of the function that throttle(func, limit) returns,
\* func runs for the first, for none made less than limit ms after the call
\* that ran func last, and for the first made after those limit ms.
C30_ThrottleRunsByTheClock ==
    hist.call.made
        => /\ hist.call.since = Unset => hist.call.ran
           /\ hist.call.since # Unset /\ hist.call.since < throttle.limit
                  => ~hist.call.ran
           /\ hist.call.since > throttle.limit => hist.call.ran

\* C30, amended: func runs for the first call and then for the calls made
\* when the timer set by the last run has fired, and for no others; that
\* timer fires limit ms after the run or later, so that two runs are never
\* less than limit ms apart; func runs with the arguments of the call.
C30_ThrottleRunsAfterItsTimer ==
    hist.call.made
        => /\ hist.call.ran <=> ~hist.call.waiting
           /\ hist.call.ran => hist.applied = hist.call.args
           /\ hist.call.ran
                  => hist.call.since = Unset \/ hist.call.since >= throttle.limit

C30_Witness ==
    /\ hist.call.made
    /\ hist.call.ran
    /\ hist.call.since >= throttle.limit

\* C31: func of debounce(func, wait) never runs less than wait ms after a
\* call of the returned function and runs with the arguments of the last
\* call; a call made more than wait ms after the call before begins a new
\* burst, and func has run for the burst before it.
C31_DebounceRunsOncePerBurst ==
    /\ hist.call.ran
           => /\ hist.call.since >= page.debounce.wait
              /\ hist.applied = page.debounce.args
    /\ hist.call.made /\ hist.call.since > page.debounce.wait
           => ~hist.call.waiting

\* C31, amended: func never runs less than wait ms after a call and runs
\* with the arguments of the last call; every call leaves one timer, set for
\* the whole wait and holding the arguments of that call, and the run of
\* func uses the timer up: func runs once for the calls made since its last
\* run, however far apart they were.
C31_DebounceRunsOncePerTimer ==
    /\ hist.call.ran
           => /\ hist.call.since >= page.debounce.wait
              /\ hist.applied = page.debounce.args
              /\ ~page.debounce.timeout
    /\ hist.call.made
           => /\ page.debounce.timeout
              /\ page.debounce.left = page.debounce.wait
              /\ page.debounce.args = hist.call.args

C31_Witness ==
    /\ hist.call.ran
    /\ hist.call.since >= page.debounce.wait
    /\ hist.applied = MaxScroll

\* C32: after destroy() of a ProjectModal no keydown event on the document
\* and no click invokes handleKeyDown, trapFocus or close of the instance.
C32_DestroyedModalHearsNothing ==
    variant \in ProjectModals /\ hist.destroyed
                              /\ hist.modal.op \in {"keydown", "click"}
        => hist.modal.invoked = {}

\* the frame callback that led to this state was skipped by mouse-trail-new.js
\* because of the jump limit
JumpSkipped ==
    /\ variant = MT_new
    /\ hist.frame.fired
    /\ ~hist.frame.updated
    /\ sinceFrame = JumpLimit

\* C33: in mouse-trail-new.js the frame callback that follows a callback
\* skipped because of the jump limit, while the engine keeps running, runs
\* the update of the particles again.
C33_OnlyTheLateFrameIsSkipped ==
    [][JumpSkipped /\ hist'.frame.fired => hist'.frame.updated]_vars

\* C34: an engine that the host stopped with stop() stays stopped when the
\* page is hidden and shown again: no frame is pending after the return.
C34_StoppedStaysStoppedWhenShown ==
    /\ variant \in {MT_new, MR_val, MR_ext}
    /\ hist.halted /\ ~hist.destroyed
    /\ hist.vis = "shown"
    => pending = {}

\* C35: in mouse-trail-new.js no particle object is both live and pooled,
\* and none is twice in this.particles or twice in this.particlePool.
C35_LiveAndPoolDisjoint ==
    variant = MT_new
        => /\ Ids(particles) \cap Ids(particlePool) = {}
           /\ Cardinality(Ids(particles)) = Len(particles)
           /\ Cardinality(Ids(particlePool)) = Len(particlePool)

C35_Witness ==
    /\ variant = MT_new
    /\ hist.move.result = "processed"
    /\ Len(hist.move.after) > Len(hist.move.before)
    /\ Len(particles) >= 1
    /\ Len(particlePool) >= 1

\* the option is given with a value that passes validation
Supplied(key) ==
    rain.options[key] # Absent /\ InRange(key, rain.options[key])

\* C36: in the validating MatrixRain every recognized option given with a
\* value that passes validation is the value of the configuration, rounded
\* down for fontSize, speed, minDrops and maxDrops, and with minDrops and
\* maxDrops in order; a resizeDebounce given so is the delay that
\* handleResize sets its timer for.
C36_SuppliedOptionsAreUsed ==
    variant = MR_val
        => /\ \A key \in Recognized \ {"minDrops", "maxDrops"} :
                 Supplied(key)
                     => rain.config[key] =
                            IF key \in FloorKeys
                            THEN Num(Floor(rain.options[key].v))
                            ELSE rain.options[key]
           /\ rain.config.minDrops.v =
                 Min(Wanted("minDrops").v, Wanted("maxDrops").v)
           /\ rain.config.maxDrops.v =
                 Max(Wanted("minDrops").v, Wanted("maxDrops").v)
           /\ Supplied("resizeDebounce") /\ rain.timer /\ hist.resize.since = 0
                 => rain.wait = Count(rain.options.resizeDebounce)

\* C37: in the validating MatrixRain every character cell of every drop has
\* alpha 0, after createDrops and after every update.
C37_EveryCellHasAlphaZero ==
    variant = MR_val
        => \A i \in 1..Len(rain.drops) :
              \A j \in 1..Len(rain.drops[i].alpha) : rain.drops[i].alpha[j] = 0

C37_Witness ==
    /\ variant = MR_val
    /\ hist.frame.updated
    /\ hist.frame.resets # {}
    /\ \E i \in 1..Len(rain.drops) : Len(rain.drops[i].alpha) >= 2

\* isOpen is true exactly when the modal element shows as open
ModalShownIffOpen ==
    variant = PM_pub
        => (page.modal.isOpen <=> /\ page.modal.active
                                  /\ ~page.modal.ariaHidden
                                  /\ page.modal.overflow = "hidden")

\* open() on an open modal and close() on a closed one change nothing and
\* dispatch no event
ModalNoOpCalls ==
    [][/\ variant = PM_pub
       /\ \/ hist'.modal.op = "open" /\ page.modal.isOpen
          \/ hist'.modal.op = "close" /\ ~page.modal.isOpen
       => /\ page'.modal = page.modal
          /\ listeners' = listeners
          /\ hist'.modal.dispatched = <<>>]_vars

\* C38: in the ProjectModal of project-modal.js, after any sequence of
\* open(project), close(), key presses and clicks on the overlay or the
\* close button, isOpen is true exactly when the modal element has class
\* 'active', aria-hidden 'false' and the body has overflow 'hidden'; open()
\* on an open modal and close() on a closed one change nothing and dispatch
\* no event.
C38_ModalStateConsistent == []ModalShownIffOpen /\ ModalNoOpCalls

C38_Witness ==
    /\ variant = PM_pub
    /\ hist.modal.op = "open"
    /\ page.modal.isOpen
    /\ hist.modal.dispatched = <<>>
    /\ page.modal.active

(***************************************************************************)
(* The typewriter of the hero subtitle in the page script: initTypewriter  *)
(* is called by init() and is the listener of the window's load event.     *)
(***************************************************************************)
MaxText == 3

StartDelay == 1000

CharDelay == 50

Chars == {"a", "b", " "}

Texts == UNION {[1..n -> Chars] : n \in 0..MaxText}

\* String.prototype.trim
Trim(t) ==
    LET solid == {j \in DOMAIN t : t[j] # " "}
    IN IF solid = {}
       THEN <<>>
       ELSE SubSeq(t, CHOOSE j \in solid : \A k \in solid : j <= k,
                      CHOOSE j \in solid : \A k \in solid : j >= k)

\* initTypewriter()
InitTypewriter(s) ==
    IF ~s.page.typing.present
    THEN s
    ELSE [s EXCEPT !.page.typing.subtitle = <<>>,
                   !.page.typing.closures =
                       Append(@, [text |-> Trim(s.page.typing.subtitle), i |-> 0,
                                  pending |-> TRUE, left |-> StartDelay])]

\* typeWriter() of the k-th call of initTypewriter
TypeWriter(s, k) ==
    LET c == s.page.typing.closures[k]
    IN IF c.i < Len(c.text)
       THEN [s EXCEPT !.page.typing.subtitle = Append(@, c.text[c.i + 1]),
                      !.page.typing.closures[k].i = c.i + 1,
                      !.page.typing.closures[k].left = CharDelay]
       ELSE [s EXCEPT !.page.typing.closures[k].pending = FALSE]

\* the load event of the window
Load ==
    /\ variant = PG_p0
    /\ ~page.typing.loaded
    /\ Commit(InitTypewriter([Fresh(Cur) EXCEPT !.page.typing.loaded = TRUE]))
    /\ UNCHANGED hidden

\* a timer of the typewriter fires, at the end of its delay or later
TypeTimer ==
    /\ \E k \in DOMAIN page.typing.closures :
         /\ page.typing.closures[k].pending
         /\ page.typing.closures[k].left = 0
         /\ Commit(TypeWriter(Fresh(Cur), k))
    /\ UNCHANGED hidden

\* the time between two characters passes
TypePause ==
    /\ variant = PG_p0
    /\ Elapse(CharDelay)

\* the page after init(), which has called initTypewriter
InitTyping ==
    /\ variant = PG_p0
    /\ maxParticles = MaxCeiling
    /\ hidden = FALSE
    /\ \E present \in BOOLEAN, content \in Texts :
         LET b == [Blank(PG_p0, Unset) EXCEPT !.page.typing.present = present,
                                              !.page.typing.content = content,
                                              !.page.typing.subtitle = content]
             c == InitTypewriter(b)
         IN /\ animationId = c.animationId
            /\ pending = c.pending
            /\ isRunning = c.isRunning
            /\ sinceFrame = c.sinceFrame
            /\ sinceMove = c.sinceMove
            /\ listeners = c.listeners
            /\ canvasAttached = c.canvasAttached
            /\ particles = c.particles
            /\ particlePool = c.particlePool
            /\ allocated = c.allocated
            /\ rain = c.rain
            /\ throttle = c.throttle
            /\ page = c.page
            /\ hist = c.hist

NextTyping == Load \/ TypeTimer \/ TypePause

\* time passes and a timer that is due fires
SpecTyping ==
    InitTyping /\ [][NextTyping]_vars /\ WF_vars(TypePause) /\ WF_vars(TypeTimer)

\* C39: the typewriter ends with the subtitle showing exactly its original
\* text: whenever the load event fires, before the typing starts, in the
\* middle of it or after it, the subtitle eventually equals the original
\* text and then stops changing.  (A typeWriter that finds i = text.length
\* sets no timer: once every closure has typed its text the page rests,
\* and the subtitle it rests at is the one compared.)
C39_SubtitleSettlesToOriginal ==
    <>[](page.typing.present
             => page.typing.subtitle = Trim(page.typing.content))

====
